---- MODULE Spec2Model ----
(***************************************************************************)
(* The M3U playlist validation pipeline of burgtv-api:                     *)
(*   validatePlaylistHandler -> validateM3uUrlDetailed -> analyzeM3uContent *)
(* (src/src/app/api/cron/cleanup/route.ts, lines 37-271).                  *)
(*                                                                         *)
(* A JavaScript string is modelled as a sequence of one-character strings, *)
(* so that split, trim, startsWith, includes, toLowerCase and template     *)
(* literals are computed character by character.  An optional value        *)
(* (null / undefined or a value) is None = <<>> or Some(v) = <<v>>; an     *)
(* object is a record whose DOMAIN holds the properties that are set.      *)
(***************************************************************************)
EXTENDS Integers, Sequences, FiniteSets, TLC

VARIABLES
    pc,           \* per call: position of validateM3uUrlDetailed
    url,          \* per call: the url argument
    headTimer,    \* per call: state of timeoutId (line 122)
    contentTimer, \* per call: state of contentTimeoutId (line 166)
    elapsed,      \* per call: milliseconds since the last timer was armed
    contentType,  \* per call: headResponse.headers.get('content-type')
    verdict,      \* per call: the value the call returned
    exception,    \* per call: the exception that left the call, if any
    log,          \* per call: the requests issued and their outcomes, in order
    content,      \* the text handed to analyzeM3uContent
    analysis,     \* what analyzeM3uContent returned for it
    request,      \* per call: the request validatePlaylistHandler received
    reply,        \* per call: the response validatePlaylistHandler gave
    window,       \* the number of characters of content that a partial fetch delivered
    sampled,      \* what analyzeM3uContent returned for these characters
    devices,      \* the rows of table devices (database/schema.sql, lines 8-20)
    device_logs,  \* the rows of table device_logs (database/schema.sql, lines 23-31)
    handlers,     \* per request in flight: the locals of its device API handler
    now,          \* the date, in days
    nextId,       \* the number of ids gen_random_uuid() has given out, plus one
    answered,     \* history, per m3u url: the day its server last answered a probe with success
    history       \* history: the registrations and the removals of devices

callVars == <<pc, url, headTimer, contentTimer, elapsed, contentType, verdict, exception, log,
              request, reply>>
prefixVars == <<window, sampled>>
storeVars == <<devices, device_logs, handlers, now, nextId, answered, history>>
vars == <<pc, url, headTimer, contentTimer, elapsed, contentType, verdict, exception, log,
          content, analysis, request, reply, window, sampled, devices, device_logs, handlers,
          now, nextId, answered, history>>

----------------------------------------------------------------------------
(* Bounds of the model *)

\* chunks of text concatenated into one content
MaxChunks == 4
\* the clock advances in steps of TickMs milliseconds
TickMs == 5000
\* the clock of a call stops advancing here
MaxElapsedMs == 20000
\* the contents that are cut are made of at most this many chunks
MaxPrefixChunks == 2
\* at most this many devices are ever registered
MaxDevices == 2

----------------------------------------------------------------------------
(* Optional values and strings *)

None == <<>>
Some(v) == <<v>>

\* JavaScript truthiness of an optional string: null and "" are falsy
Truthy(opt) == opt # None /\ opt[1] # <<>>

WhiteSpace == {" ", "\t", "\n", "\r", "\f"}

LowerOf == [A |-> "a", B |-> "b", C |-> "c", D |-> "d", E |-> "e", F |-> "f",
            G |-> "g", H |-> "h", I |-> "i", J |-> "j", K |-> "k", L |-> "l",
            M |-> "m", N |-> "n", O |-> "o", P |-> "p", Q |-> "q", R |-> "r",
            S |-> "s", T |-> "t", U |-> "u", V |-> "v", W |-> "w", X |-> "x",
            Y |-> "y", Z |-> "z"]

\* String.prototype.toLowerCase
toLowerCase(s) == [i \in 1..Len(s) |-> IF s[i] \in DOMAIN LowerOf THEN LowerOf[s[i]] ELSE s[i]]

\* String.prototype.startsWith
startsWith(s, p) == Len(s) >= Len(p) /\ SubSeq(s, 1, Len(p)) = p

\* String.prototype.includes
includes(s, p) == \E i \in 0..(Len(s) - Len(p)) : SubSeq(s, i + 1, i + Len(p)) = p

\* String.prototype.trim
trim(s) ==
    LET keep == {i \in 1..Len(s) : s[i] \notin WhiteSpace}
    IN  IF keep = {} THEN <<>>
        ELSE SubSeq(s, CHOOSE i \in keep : \A j \in keep : i <= j,
                       CHOOSE i \in keep : \A j \in keep : i >= j)

\* String.prototype.split with a one-character separator
RECURSIVE split(_, _)
split(s, sep) ==
    IF \A i \in 1..Len(s) : s[i] # sep THEN <<s>>
    ELSE LET at == CHOOSE i \in 1..Len(s) : s[i] = sep /\ \A j \in 1..(i - 1) : s[j] # sep
         IN  <<SubSeq(s, 1, at - 1)>> \o split(SubSeq(s, at + 1, Len(s)), sep)

\* Number to decimal digits, as a template literal formats it
DigitOf == <<"0", "1", "2", "3", "4", "5", "6", "7", "8", "9">>
RECURSIVE decimal(_)
decimal(n) == IF n < 10 THEN <<DigitOf[n + 1]>> ELSE decimal(n \div 10) \o <<DigitOf[(n % 10) + 1]>>

RECURSIVE concat(_)
concat(ss) == IF ss = <<>> THEN <<>> ELSE Head(ss) \o concat(Tail(ss))

----------------------------------------------------------------------------
(* analyzeM3uContent, lines 211-268 *)

EXTM3U == <<"#","E","X","T","M","3","U">>
EXTINF == <<"#","E","X","T","I","N","F",":">>
HASH == <<"#">>
HTTP_SCHEME == <<"h","t","t","p",":","/","/">>
HTTPS_SCHEME == <<"h","t","t","p","s",":","/","/">>
TVG == <<"t","v","g","-">>
FORMAT_M3U == <<"M","3","U">>
FORMAT_M3U_EXTENDED == <<"M","3","U"," ","E","x","t","e","n","d","e","d">>
ERR_EMPTY == <<"E","m","p","t","y"," ","c","o","n","t","e","n","t">>
ERR_NO_HEADER == <<"M","i","s","s","i","n","g"," ","#","E","X","T","M","3","U"," ","h","e","a","d","e","r">>
ERR_NO_CHANNELS == <<"N","o"," ","c","h","a","n","n","e","l","s"," ","f","o","u","n","d"," ","i","n"," ","p","l","a","y","l","i","s","t">>
ERR_NO_URLS == <<"N","o"," ","v","a","l","i","d"," ","U","R","L","s"," ","f","o","u","n","d"," ","i","n"," ","p","l","a","y","l","i","s","t">>

\* what a call of a method on undefined produces
TypeErrorThrown == [thrown |-> "TypeError"]

\* mutant: only the empty string counts as empty
isEmptyString(text) == Len(text) = 0

\* line 217
isBlank(text) == Len(text) = 0 \/ Len(trim(text)) = 0

\* line 224
lines(text) ==
    LET raw == split(text, "\n")
        trimmed == [i \in 1..Len(raw) |-> trim(raw[i])]
    IN  SelectSeq(trimmed, LAMBDA line : Len(line) > 0)

\* line 236
channelLines(ls) == SelectSeq(ls, LAMBDA line : startsWith(line, EXTINF))

\* mutant: the scheme test of lines 238-239 is dropped
urlLinesOfAnyScheme(ls) == SelectSeq(ls, LAMBDA line : ~startsWith(line, HASH))

\* lines 237-240
urlLines(ls) ==
    SelectSeq(ls, LAMBDA line : /\ ~startsWith(line, HASH)
                                /\ (startsWith(line, HTTP_SCHEME) \/ startsWith(line, HTTPS_SCHEME)))

\* mutant: only the "#EXTINF:" lines are searched for "tvg-"
formatOfChannelLines(ls) ==
    IF \E i \in 1..Len(channelLines(ls)) : includes(channelLines(ls)[i], TVG)
    THEN FORMAT_M3U_EXTENDED ELSE FORMAT_M3U

\* lines 258-261
format(ls) == IF \E i \in 1..Len(ls) : includes(ls[i], TVG) THEN FORMAT_M3U_EXTENDED ELSE FORMAT_M3U

\* mutant: the header is looked for anywhere in the first line
hasHeaderAnywhere(ls) == includes(ls[1], EXTM3U)

\* line 228
hasHeader(ls) == startsWith(ls[1], EXTM3U)

\* Math.min
min(a, b) == IF a <= b THEN a ELSE b

\* mutant: the "#EXTINF:" lines alone are counted
channelCountOfExtinf(ls) == Len(channelLines(ls))

\* mutant: channels are counted only when every "#EXTINF:" line has its url line
channelCountIfMatching(ls) ==
    IF Len(channelLines(ls)) = Len(urlLines(ls)) THEN Len(channelLines(ls)) ELSE 0

\* line 265
channelCount(ls) == min(Len(channelLines(ls)), Len(urlLines(ls)))

analyzeM3uContent(text) ==
    IF isBlank(text) THEN [isValid |-> FALSE, error |-> ERR_EMPTY]
    ELSE LET ls == lines(text) IN
         IF Len(ls) = 0 THEN TypeErrorThrown   \* lines[0] is undefined
         ELSE IF ~hasHeader(ls) THEN [isValid |-> FALSE, error |-> ERR_NO_HEADER]
         ELSE IF Len(channelLines(ls)) = 0 THEN [isValid |-> FALSE, error |-> ERR_NO_CHANNELS]
         ELSE IF Len(urlLines(ls)) = 0 THEN [isValid |-> FALSE, error |-> ERR_NO_URLS]
         ELSE [isValid |-> TRUE,
               channelCount |-> channelCount(ls),
               format |-> format(ls)]

----------------------------------------------------------------------------
(* The inputs: contents, urls, responses and network errors *)

Chunks == {
    <<"#","E","X","T","M","3","U","\n">>,
    <<"#","E","X","T","I","N","F",":","-","1",",","A","\n","h","t","t","p",":","/","/","x","/","1","\n">>,
    <<"#","E","X","T","I","N","F",":","-","1"," ","t","v","g","-","i","d","=","\"","1","\"",",","B","\r","\n">>,
    <<"h","t","t","p","s",":","/","/","x","/","2">>,
    <<"\n">>,
    <<" ","\t">>,
    <<"n","o","t"," ","a"," ","p","l","a","y","l","i","s","t","\n">>,
    <<"#"," ","t","v","g","-","l","o","g","o","\n">>,
    <<"#","E","X","T","I","N","F">> }

RECURSIVE ChunkSeqs(_)
ChunkSeqs(n) ==
    IF n = 0 THEN {<<>>}
    ELSE LET shorter == ChunkSeqs(n - 1)
         IN  shorter \cup {Append(s, c) : s \in {t \in shorter : Len(t) = n - 1}, c \in Chunks}

\* every concatenation of at most MaxChunks chunks
Contents == {concat(s) : s \in ChunkSeqs(MaxChunks)}

\* the bodies a server answers the partial GET with
Bodies == {
    <<>>,
    <<" ","\t","\n">>,
    <<"n","o","t"," ","a"," ","p","l","a","y","l","i","s","t">>,
    <<"#","E","X","T","M","3","U","\n">>,
    <<"#","E","X","T","M","3","U","\n","h","t","t","p",":","/","/","x","/","1","\n">>,
    <<"#","E","X","T","M","3","U","\n","#","E","X","T","I","N","F",":","-","1",",","C","h","a","n","n","e","l","1","\n","h","t","t","p",":","/","/","x","/","1","\n","#","E","X","T","I","N","F",":","-","1",",","C","h","a","n","n","e","l","2","\n","h","t","t","p",":","/","/","x","/","2","\n">>,
    <<"#","E","X","T","M","3","U","\r","\n","#","E","X","T","I","N","F",":","-","1"," ","t","v","g","-","i","d","=","\"","1","\"",",","C","h","a","n","n","e","l","1","\r","\n","h","t","t","p","s",":","/","/","x","/","1","\r","\n","#","E","X","T","I","N","F",":","-","1",",","C","h","a","n","n","e","l","2","\r","\n">> }

Urls == {
    <<"h","t","t","p",":","/","/","h","/","a",".","m","3","u">>,
    <<"h","t","t","p","s",":","/","/","h","/","L",".","M","3","U","8","?","t","=","1">>,
    <<"h","t","t","p",":","/","/","h","/","g","e","t",".","p","h","p">>,
    <<"h","t","t","p",":","/","/","t","v",".","m","3","u",".","i","o","/","l","i","s","t">> }

\* two of the urls, by name
URL_A_M3U == <<"h","t","t","p",":","/","/","h","/","a",".","m","3","u">>
URL_GET_PHP == <<"h","t","t","p",":","/","/","h","/","g","e","t",".","p","h","p">>

ContentTypes == {
    None,
    Some(<<>>),
    Some(<<"a","u","d","i","o","/","x","-","m","p","e","g","u","r","l">>),
    Some(<<"a","p","p","l","i","c","a","t","i","o","n","/","o","c","t","e","t","-","s","t","r","e","a","m">>),
    Some(<<"t","e","x","t","/","p","l","a","i","n",";"," ","c","h","a","r","s","e","t","=","u","t","f","-","8">>),
    Some(<<"T","e","x","t","/","P","l","a","i","n">>),
    Some(<<"t","e","x","t","/","h","t","m","l">>) }

HeadResponses ==
    {[status |-> 200, statusText |-> <<"O","K">>, contentType |-> ct] : ct \in ContentTypes}
    \cup {[status |-> 299, statusText |-> <<>>, contentType |-> None],
          [status |-> 300, statusText |-> <<"M","u","l","t","i","p","l","e"," ","C","h","o","i","c","e","s">>, contentType |-> None],
          [status |-> 404, statusText |-> <<"N","o","t"," ","F","o","u","n","d">>, contentType |-> Some(<<"t","e","x","t","/","h","t","m","l">>)],
          [status |-> 404, statusText |-> <<>>, contentType |-> Some(<<"a","u","d","i","o","/","x","-","m","p","e","g","u","r","l">>)],
          [status |-> 500, statusText |-> <<"I","n","t","e","r","n","a","l"," ","S","e","r","v","e","r"," ","E","r","r","o","r">>, contentType |-> None]}

ContentResponses ==
    {[status |-> 200, statusText |-> <<"O","K">>],
     [status |-> 206, statusText |-> <<"P","a","r","t","i","a","l"," ","C","o","n","t","e","n","t">>],
     [status |-> 404, statusText |-> <<"N","o","t"," ","F","o","u","n","d">>],
     [status |-> 416, statusText |-> <<"R","a","n","g","e"," ","N","o","t"," ","S","a","t","i","s","f","i","a","b","l","e">>]}

\* what fetch and Response.text reject with when the network fails
NetworkErrors ==
    {[name |-> "TypeError", isError |-> TRUE, message |-> <<"f","e","t","c","h"," ","f","a","i","l","e","d">>],
     [name |-> "TypeError", isError |-> TRUE, message |-> <<>>]}

\* what a fetch rejects with when its signal is aborted
AbortError == [name |-> "AbortError", isError |-> TRUE, message |-> <<"T","h","i","s"," ","o","p","e","r","a","t","i","o","n"," ","w","a","s"," ","a","b","o","r","t","e","d">>]

----------------------------------------------------------------------------
(* validatePlaylistHandler, lines 43-115, with rateLimitMiddleware         *)
(* (src/src/lib/middleware.ts, lines 32-58)                                *)

\* JSON values of a request body
JNull == [type |-> "null"]
JNumber(n) == [type |-> "number", value |-> n]
JString(s) == [type |-> "string", value |-> s]
JObject(props) == [type |-> "object", props |-> props]

\* the urls a request may carry: those of Urls, and strings that are no http(s) URL
RequestUrls ==
    Urls \cup {<<"f","t","p",":","/","/","h","/","a",".","m","3","u">>, <<"f","i","l","e",":","/","/","/","e","t","c","/","l","i","s","t",".","m","3","u">>, <<"h","/","a",".","m","3","u">>, <<"n","o","t"," ","a"," ","u","r","l">>, <<>>}

\* req.json() rejects with a SyntaxError, or resolves with the parsed value
RequestBodies ==
    {[parsed |-> FALSE]}
    \cup {[parsed |-> TRUE, value |-> v] :
            v \in {JNull, JObject(<<>>), JObject([url |-> JNumber(5)])}
                  \cup {JObject([url |-> JString(u)]) : u \in RequestUrls}}

\* a request: its method, what the rate limiter does with it (None: it lets the request
\* pass; Some(ms): it rejects with msBeforeNext = ms), and its body
Requests ==
    {[method |-> m, limited |-> l, body |-> b] :
        m \in {"POST", "OPTIONS"}, l \in {None, Some(1500)}, b \in RequestBodies}

MSG_TOO_MANY == <<"T","o","o"," ","m","a","n","y"," ","r","e","q","u","e","s","t","s">>
MSG_RATE_LIMIT == <<"R","a","t","e"," ","l","i","m","i","t"," ","e","x","c","e","e","d","e","d">>
MSG_INVALID_JSON == <<"I","n","v","a","l","i","d"," ","J","S","O","N"," ","b","o","d","y">>
MSG_VALIDATION_FAILED == <<"V","a","l","i","d","a","t","i","o","n"," ","f","a","i","l","e","d">>
MSG_INVALID_URL == <<"I","n","v","a","l","i","d"," ","U","R","L"," ","f","o","r","m","a","t">>
MSG_REQUIRED == <<"R","e","q","u","i","r","e","d">>
MSG_EXPECTED_STRING == <<"E","x","p","e","c","t","e","d"," ","s","t","r","i","n","g",","," ","r","e","c","e","i","v","e","d"," ","n","u","m","b","e","r">>
MSG_EXPECTED_OBJECT == <<"E","x","p","e","c","t","e","d"," ","o","b","j","e","c","t",","," ","r","e","c","e","i","v","e","d"," ","n","u","l","l">>
MSG_UNABLE == <<"U","n","a","b","l","e"," ","t","o"," ","v","a","l","i","d","a","t","e"," ","p","l","a","y","l","i","s","t"," ","U","R","L">>

Letters == DOMAIN LowerOf \cup {LowerOf[l] : l \in DOMAIN LowerOf}
SchemeChars == Letters \cup {"0", "1", "2", "3", "4", "5", "6", "7", "8", "9", "+", "-", "."}
SpecialSchemes == {<<"h","t","t","p">>, <<"h","t","t","p","s">>, <<"f","t","p">>, <<"w","s">>, <<"w","s","s">>}

\* the characters of s after its leading slashes
RECURSIVE afterSlashes(_)
afterSlashes(s) == IF s # <<>> /\ Head(s) \in {"/", "\\"} THEN afterSlashes(Tail(s)) ELSE s

\* new URL(s) does not throw: s has a scheme, and a host when the scheme requires one
parsesAsUrl(s) ==
    \E i \in 2..Len(s) :
        /\ s[i] = ":"
        /\ s[1] \in Letters
        /\ \A j \in 2..(i - 1) : s[j] \in SchemeChars
        /\ toLowerCase(SubSeq(s, 1, i - 1)) \in SpecialSchemes
            => LET host == afterSlashes(SubSeq(s, i + 1, Len(s)))
               IN  host # <<>> /\ Head(host) \notin {"?", "#", ":"}

\* fetch resolves only for a url of a scheme it implements
fetchable(u) ==
    startsWith(toLowerCase(u), HTTP_SCHEME) \/ startsWith(toLowerCase(u), HTTPS_SCHEME)

\* mutant: the url is only required to be a string
schemaErrorAnyString(value) ==
    IF value.type # "object" THEN Some(MSG_EXPECTED_OBJECT)
    ELSE IF "url" \notin DOMAIN value.props THEN Some(MSG_REQUIRED)
    ELSE IF value.props.url.type # "string" THEN Some(MSG_EXPECTED_STRING)
    ELSE None

\* lines 43-45, 79: validatePlaylistSchema.safeParse(body): None, or Some(message)
schemaError(value) ==
    IF value.type # "object" THEN Some(MSG_EXPECTED_OBJECT)
    ELSE IF "url" \notin DOMAIN value.props THEN Some(MSG_REQUIRED)
    ELSE IF value.props.url.type # "string" THEN Some(MSG_EXPECTED_STRING)
    ELSE IF ~parsesAsUrl(value.props.url.value) THEN Some(MSG_INVALID_URL)
    ELSE None

\* Math.round(msBeforeNext / 1000), middleware.ts line 45
retryAfter(ms) == (ms + 500) \div 1000

STATUS_OK == 200
STATUS_BAD_REQUEST == 400
STATUS_TOO_MANY == 429
STATUS_SERVER_ERROR == 500

\* lines 52-55
preflightReply == [status |-> STATUS_OK]

\* middleware.ts lines 40-56
rateLimitReply(ms) ==
    [status |-> STATUS_TOO_MANY,
     body |-> [success |-> FALSE, error |-> MSG_TOO_MANY, message |-> MSG_RATE_LIMIT,
               retryAfter |-> retryAfter(ms)]]

\* lines 69-75
invalidJsonReply == [status |-> STATUS_BAD_REQUEST, body |-> [success |-> FALSE, error |-> MSG_INVALID_JSON]]

\* lines 81-88
invalidInputReply(message) ==
    [status |-> STATUS_BAD_REQUEST,
     body |-> [success |-> FALSE, error |-> MSG_VALIDATION_FAILED, message |-> message]]

\* mutant: success follows the verdict
verdictReplyByValidity(v) == [status |-> STATUS_OK, body |-> [success |-> v.isValid, data |-> v]]

\* lines 97-102
verdictReply(v) == [status |-> STATUS_OK, body |-> [success |-> TRUE, data |-> v]]

\* lines 104-113
errorReply ==
    [status |-> STATUS_SERVER_ERROR,
     body |-> [success |-> FALSE, error |-> MSG_VALIDATION_FAILED, message |-> MSG_UNABLE]]

NoRequest == [pending |-> TRUE]
NoReply == [pending |-> TRUE]

\* lines 47-89: what the handler answers before it calls the validator; None when it
\* calls the validator
earlyReply(req) ==
    IF req.method = "OPTIONS" THEN Some(preflightReply)
    ELSE IF req.limited # None THEN Some(rateLimitReply(req.limited[1]))
    ELSE IF ~req.body.parsed THEN Some(invalidJsonReply)
    ELSE IF schemaError(req.body.value) # None
         THEN Some(invalidInputReply(schemaError(req.body.value)[1]))
    ELSE None

----------------------------------------------------------------------------
(* validateM3uUrlDetailed, lines 118-208 *)

\* line 166
CONTENT_TIMEOUT_MS == 15000

\* mutant: the HEAD probe is given the bound of the content fetch
headTimeoutOfContent == CONTENT_TIMEOUT_MS

\* line 122
HEAD_TIMEOUT_MS == 10000

\* line 173: 'Range': 'bytes=0-2048'
RANGE_FIRST == 0
RANGE_LAST == 2048

MSG_HTTP == <<"H","T","T","P"," ">>
MSG_COLON == <<":"," ">>
MSG_NETWORK == <<"N","e","t","w","o","r","k"," ","e","r","r","o","r",":"," ">>
MSG_UNKNOWN_ERROR == <<"U","n","k","n","o","w","n"," ","e","r","r","o","r">>
MSG_NOT_M3U == <<"U","R","L"," ","d","o","e","s"," ","n","o","t"," ","a","p","p","e","a","r"," ","t","o"," ","b","e"," ","a"," ","v","a","l","i","d"," ","M","3","U"," ","p","l","a","y","l","i","s","t">>
UNKNOWN == <<"u","n","k","n","o","w","n">>
DOT_M3U == <<".","m","3","u">>

\* lines 144-149
validContentTypes == <<
    <<"a","p","p","l","i","c","a","t","i","o","n","/","x","-","m","p","e","g","u","r","l">>,
    <<"a","u","d","i","o","/","x","-","m","p","e","g","u","r","l">>,
    <<"t","e","x","t","/","p","l","a","i","n">>,
    <<"a","p","p","l","i","c","a","t","i","o","n","/","o","c","t","e","t","-","s","t","r","e","a","m">> >>

\* mutant: a redirection status counts as success
okBelow400(response) == response.status >= 200 /\ response.status < 400

\* Response.ok
ok(response) == response.status >= 200 /\ response.status <= 299

\* mutant: the content type is compared without regard to letter case
hasValidContentTypeAnyCase(ct) ==
    Truthy(ct) /\ \E i \in 1..Len(validContentTypes) : includes(toLowerCase(ct[1]), validContentTypes[i])

\* lines 151-153
hasValidContentType(ct) ==
    Truthy(ct) /\ \E i \in 1..Len(validContentTypes) : includes(ct[1], validContentTypes[i])

\* mutant: any content type that is present passes
looksLikeM3uIfTyped(u, ct) == Truthy(ct) \/ includes(toLowerCase(u), DOT_M3U)

\* line 156: the condition under which the content fetch is attempted
looksLikeM3u(u, ct) == hasValidContentType(ct) \/ includes(toLowerCase(u), DOT_M3U)

\* lines 134-137
httpErrorVerdict(response) ==
    [isValid |-> FALSE,
     error |-> MSG_HTTP \o decimal(response.status) \o MSG_COLON \o response.statusText]

\* lines 157-160
notM3uVerdict == [isValid |-> FALSE, error |-> MSG_NOT_M3U]

\* mutant: the error defaults to the empty string
analysisVerdictWithError(a) ==
    [k \in ({"isValid", "channelCount", "format", "error"} \cap DOMAIN a) \cup {"error"} |->
        IF k \in DOMAIN a THEN a[k] ELSE <<>>]

\* lines 184-189: an undefined property is a property that is not set
analysisVerdict(a) ==
    [k \in {"isValid", "channelCount", "format", "error"} \cap DOMAIN a |-> a[k]]

\* mutant: the verdict of the basic validation carries a channel count
basicVerdictCounted(ct) ==
    [isValid |-> TRUE, channelCount |-> 0, format |-> IF Truthy(ct) THEN ct[1] ELSE UNKNOWN]

\* lines 197-200
basicVerdict(ct) == [isValid |-> TRUE, format |-> IF Truthy(ct) THEN ct[1] ELSE UNKNOWN]

\* lines 203-206
networkErrorVerdict(error) ==
    [isValid |-> FALSE,
     error |-> MSG_NETWORK \o (IF error.isError THEN error.message ELSE MSG_UNKNOWN_ERROR)]

\* how a call of the function ends
Return(v) == [kind |-> "return", value |-> v]
Throw(e) == [kind |-> "throw", value |-> e]

\* mutant: the outer try has no catch
outerRethrow(error) == Throw(error)

\* lines 202-207: the catch of the outer try
outerCatch(error) == Return(networkErrorVerdict(error))

\* mutant: the content fetch is not wrapped in a try of its own
innerCatchIsOuter(error, ct) == Return(networkErrorVerdict(error))

\* lines 191-200: the catch of the inner try, then the return after it
innerCatch(error, ct) == Return(basicVerdict(ct))

NoVerdict == [pending |-> TRUE]

Calls == {"c1", "c2"}

fetchEvent(method) ==
    IF method = "GET"
    THEN [ev |-> "fetch", method |-> method, range |-> <<RANGE_FIRST, RANGE_LAST>>]
    ELSE [ev |-> "fetch", method |-> method]

\* a timer that is no longer pending keeps no clock
clockAfter(c, head, cont) == IF "armed" \in {head, cont} THEN elapsed[c] ELSE 0

\* mutant: the verdict carries the time the call took
FinishTimed(c, k, head, cont, event) ==
    /\ pc' = [pc EXCEPT ![c] = "done"]
    /\ verdict' = [verdict EXCEPT ![c] =
                      IF k.kind = "return"
                      THEN [f \in DOMAIN k.value \cup {"responseTime"} |->
                               IF f = "responseTime" THEN elapsed[c] ELSE k.value[f]]
                      ELSE NoVerdict]
    /\ exception' = [exception EXCEPT ![c] = IF k.kind = "throw" THEN Some(k.value) ELSE None]
    /\ headTimer' = [headTimer EXCEPT ![c] = head]
    /\ contentTimer' = [contentTimer EXCEPT ![c] = cont]
    /\ elapsed' = [elapsed EXCEPT ![c] = clockAfter(c, head, cont)]
    /\ log' = [log EXCEPT ![c] = Append(@, event)]

\* the call ends with completion k, its timers left as head and cont
Finish(c, k, head, cont, event) ==
    /\ pc' = [pc EXCEPT ![c] = "done"]
    /\ verdict' = [verdict EXCEPT ![c] = IF k.kind = "return" THEN k.value ELSE NoVerdict]
    /\ exception' = [exception EXCEPT ![c] = IF k.kind = "throw" THEN Some(k.value) ELSE None]
    /\ headTimer' = [headTimer EXCEPT ![c] = head]
    /\ contentTimer' = [contentTimer EXCEPT ![c] = cont]
    /\ elapsed' = [elapsed EXCEPT ![c] = clockAfter(c, head, cont)]
    /\ log' = [log EXCEPT ![c] = Append(@, event)]

\* lines 118-130: the call starts, arms the 10 s timer and issues the HEAD request
start(c, u) ==
    /\ pc[c] = "idle"
    /\ pc' = [pc EXCEPT ![c] = "head"]
    /\ url' = [url EXCEPT ![c] = u]
    /\ headTimer' = [headTimer EXCEPT ![c] = "armed"]
    /\ elapsed' = [elapsed EXCEPT ![c] = 0]
    /\ log' = [log EXCEPT ![c] = <<fetchEvent("HEAD")>>]
    /\ UNCHANGED <<contentTimer, contentType, verdict, exception, content, analysis>>

\* the validator is called directly
Invoke(c, u) == start(c, u) /\ UNCHANGED <<request, reply, prefixVars, storeVars>>

\* lines 131-175: the HEAD request resolves
HeadResolve(c, response) ==
    /\ pc[c] = "head"
    /\ headTimer[c] = "armed"
    /\ fetchable(url[c])
    /\ LET event == [ev |-> "response", method |-> "HEAD", response |-> response]
           ct == response.contentType
       IN  IF ~ok(response)
           THEN /\ Finish(c, Return(httpErrorVerdict(response)), "cleared", contentTimer[c], event)
                /\ UNCHANGED <<url, contentType, content, analysis, request, reply, prefixVars, storeVars>>
           ELSE IF ~looksLikeM3u(url[c], ct)
           THEN /\ Finish(c, Return(notM3uVerdict), "cleared", contentTimer[c], event)
                /\ contentType' = [contentType EXCEPT ![c] = ct]
                /\ UNCHANGED <<url, content, analysis, request, reply, prefixVars, storeVars>>
           ELSE /\ pc' = [pc EXCEPT ![c] = "content"]
                /\ contentType' = [contentType EXCEPT ![c] = ct]
                /\ headTimer' = [headTimer EXCEPT ![c] = "cleared"]
                /\ contentTimer' = [contentTimer EXCEPT ![c] = "armed"]
                /\ elapsed' = [elapsed EXCEPT ![c] = 0]
                /\ log' = [log EXCEPT ![c] = @ \o <<event, fetchEvent("GET")>>]
                /\ UNCHANGED <<url, verdict, exception, content, analysis, request, reply, prefixVars, storeVars>>

\* lines 124-130, 202-207: the HEAD request rejects; clearTimeout is not reached
HeadReject(c, error) ==
    /\ pc[c] = "head"
    /\ headTimer[c] = "armed"
    /\ Finish(c, outerCatch(error), "armed", contentTimer[c],
              [ev |-> "rejected", method |-> "HEAD", error |-> error])
    /\ UNCHANGED <<url, contentType, content, analysis, request, reply, prefixVars, storeVars>>

\* mutant: the calls share one controller, so a timer that fires aborts every pending HEAD
HeadTimeoutSharedController(c) ==
    /\ headTimer[c] = "armed"
    /\ elapsed[c] >= HEAD_TIMEOUT_MS
    /\ LET hit == {d \in Calls : pc[d] = "head"}
       IN  /\ pc' = [d \in Calls |-> IF d \in hit THEN "done" ELSE pc[d]]
           /\ verdict' = [d \in Calls |-> IF d \in hit THEN networkErrorVerdict(AbortError) ELSE verdict[d]]
           /\ log' = [d \in Calls |->
                         IF d \in hit
                         THEN Append(log[d], [ev |-> "aborted", method |-> "HEAD", after |-> elapsed[d]])
                         ELSE log[d]]
           /\ headTimer' = [headTimer EXCEPT ![c] = "fired"]
           /\ elapsed' = [elapsed EXCEPT ![c] = 0]
           /\ UNCHANGED <<contentTimer, exception>>
    /\ UNCHANGED <<url, contentType, content, analysis, request, reply, prefixVars, storeVars>>

\* line 122: the 10 s timer fires and aborts the controller
HeadTimeout(c) ==
    /\ headTimer[c] = "armed"
    /\ elapsed[c] >= HEAD_TIMEOUT_MS
    /\ IF pc[c] = "head"
       THEN Finish(c, outerCatch(AbortError), "fired", contentTimer[c],
                   [ev |-> "aborted", method |-> "HEAD", after |-> elapsed[c]])
       ELSE /\ headTimer' = [headTimer EXCEPT ![c] = "fired"]
            /\ elapsed' = [elapsed EXCEPT ![c] = 0]
            /\ UNCHANGED <<pc, contentTimer, verdict, exception, log>>
    /\ UNCHANGED <<url, contentType, content, analysis, request, reply, prefixVars, storeVars>>

\* lines 176-179, 196-200: the GET request resolves
ContentResolve(c, response) ==
    /\ pc[c] = "content"
    /\ contentTimer[c] = "armed"
    /\ LET event == [ev |-> "response", method |-> "GET", response |-> response]
       IN  IF ok(response)
           THEN /\ pc' = [pc EXCEPT ![c] = "body"]
                /\ contentTimer' = [contentTimer EXCEPT ![c] = "cleared"]
                /\ log' = [log EXCEPT ![c] = Append(@, event)]
                /\ UNCHANGED <<headTimer, elapsed, verdict, exception>>
           ELSE Finish(c, Return(basicVerdict(contentType[c])), headTimer[c], "cleared", event)
    /\ UNCHANGED <<url, contentType, content, analysis, request, reply, prefixVars, storeVars>>

\* mutant: a GET request that rejects is issued a second time
ContentRejectRetries(c, error) ==
    /\ pc[c] = "content"
    /\ contentTimer[c] = "armed"
    /\ IF Cardinality({i \in DOMAIN log[c] : log[c][i] = fetchEvent("GET")}) < 2
       THEN /\ log' = [log EXCEPT ![c] = @ \o <<[ev |-> "rejected", method |-> "GET", error |-> error],
                                                 fetchEvent("GET")>>]
            /\ elapsed' = [elapsed EXCEPT ![c] = 0]
            /\ UNCHANGED <<pc, headTimer, contentTimer, verdict, exception>>
       ELSE Finish(c, innerCatch(error, contentType[c]), headTimer[c], "armed",
                   [ev |-> "rejected", method |-> "GET", error |-> error])
    /\ UNCHANGED <<url, contentType, content, analysis, request, reply, prefixVars, storeVars>>

\* lines 168-175, 191-200: the GET request rejects; clearTimeout is not reached
ContentReject(c, error) ==
    /\ pc[c] = "content"
    /\ contentTimer[c] = "armed"
    /\ Finish(c, innerCatch(error, contentType[c]), headTimer[c], "armed",
              [ev |-> "rejected", method |-> "GET", error |-> error])
    /\ UNCHANGED <<url, contentType, content, analysis, request, reply, prefixVars, storeVars>>

\* line 166: the 15 s timer fires and aborts the content controller
ContentTimeout(c) ==
    /\ contentTimer[c] = "armed"
    /\ elapsed[c] >= CONTENT_TIMEOUT_MS
    /\ IF pc[c] = "content"
       THEN Finish(c, innerCatch(AbortError, contentType[c]), headTimer[c], "fired",
                   [ev |-> "aborted", method |-> "GET", after |-> elapsed[c]])
       ELSE /\ contentTimer' = [contentTimer EXCEPT ![c] = "fired"]
            /\ elapsed' = [elapsed EXCEPT ![c] = 0]
            /\ UNCHANGED <<pc, headTimer, verdict, exception, log>>
    /\ UNCHANGED <<url, contentType, content, analysis, request, reply, prefixVars, storeVars>>

\* lines 179-189: the body is read and analysed
BodyRead(c, text) ==
    /\ pc[c] = "body"
    /\ LET a == analyzeM3uContent(text)
           k == IF a = TypeErrorThrown
                THEN innerCatch([name |-> "TypeError", isError |-> TRUE, message |-> <<>>],
                                contentType[c])
                ELSE Return(analysisVerdict(a))
       IN  Finish(c, k, headTimer[c], contentTimer[c], [ev |-> "body", text |-> text])
    /\ UNCHANGED <<url, contentType, content, analysis, request, reply, prefixVars, storeVars>>

\* lines 179, 191-200: reading the body fails
BodyFail(c, error) ==
    /\ pc[c] = "body"
    /\ Finish(c, innerCatch(error, contentType[c]), headTimer[c], contentTimer[c],
              [ev |-> "bodyFailed", error |-> error])
    /\ UNCHANGED <<url, contentType, content, analysis, request, reply, prefixVars, storeVars>>

\* time passes while the call waits or a timer is pending; a timer that is due fires first
Tick(c) ==
    /\ pc[c] \in {"head", "content", "body"} \/ "armed" \in {headTimer[c], contentTimer[c]}
    /\ headTimer[c] = "armed" => elapsed[c] < HEAD_TIMEOUT_MS
    /\ contentTimer[c] = "armed" => elapsed[c] < CONTENT_TIMEOUT_MS
    /\ elapsed[c] + TickMs <= MaxElapsedMs
    /\ elapsed' = [elapsed EXCEPT ![c] = @ + TickMs]
    /\ UNCHANGED <<pc, url, headTimer, contentTimer, contentType, verdict, exception, log,
                   content, analysis, request, reply, prefixVars, storeVars>>

\* lines 47-95: the handler receives a request and answers it, or calls the validator
Receive(c, req) ==
    /\ pc[c] = "idle"
    /\ request[c] = NoRequest
    /\ request' = [request EXCEPT ![c] = req]
    /\ IF earlyReply(req) # None
       THEN /\ reply' = [reply EXCEPT ![c] = earlyReply(req)[1]]
            /\ UNCHANGED <<pc, url, headTimer, contentTimer, elapsed, contentType, verdict,
                           exception, log, content, analysis>>
       ELSE /\ start(c, req.body.value.props.url.value)
            /\ UNCHANGED reply
    /\ UNCHANGED <<prefixVars, storeVars>>

\* lines 95-114: the validator has ended and the handler answers
Respond(c) ==
    /\ pc[c] = "done"
    /\ request[c] # NoRequest
    /\ reply[c] = NoReply
    /\ reply' = [reply EXCEPT ![c] = IF exception[c] = None THEN verdictReply(verdict[c])
                                     ELSE errorReply]
    /\ UNCHANGED <<pc, url, headTimer, contentTimer, elapsed, contentType, verdict,
                   exception, log, content, analysis, request, prefixVars, storeVars>>

\* the steps of a call that has started
Run(c) ==
    \/ \E response \in HeadResponses : HeadResolve(c, response)
    \/ \E error \in NetworkErrors : HeadReject(c, error)
    \/ HeadTimeout(c)
    \/ \E response \in ContentResponses : ContentResolve(c, response)
    \/ \E error \in NetworkErrors : ContentReject(c, error)
    \/ ContentTimeout(c)
    \/ \E text \in Bodies : BodyRead(c, text)
    \/ \E error \in NetworkErrors : BodyFail(c, error)
    \/ Tick(c)

Step(c) ==
    \/ \E u \in Urls : Invoke(c, u)
    \/ Run(c)

----------------------------------------------------------------------------
(* validateM3uUrl, src/src/lib/validation.ts, lines 49-94 *)

\* lines 75-77
likelyContentTypes == <<<<"a","p","p","l","i","c","a","t","i","o","n","/","x","-","m","p","e","g","u","r","l">>, <<"a","u","d","i","o","/","x","-","m","p","e","g","u","r","l">>, <<"t","e","x","t","/","p","l","a","i","n">>>>

\* lines 74-79: contentType && (... || url.toLowerCase().includes('.m3u'))
likelyM3u(u, ct) ==
    /\ Truthy(ct)
    /\ \/ \E i \in 1..Len(likelyContentTypes) : includes(ct[1], likelyContentTypes[i])
       \/ includes(toLowerCase(u), DOT_M3U)

\* line 80
likelyVerdict == [isValid |-> TRUE]

\* lines 64-86: what the function returns for a response to its HEAD request
responseVerdict(u, response) ==
    IF ~ok(response) THEN httpErrorVerdict(response)
    ELSE IF likelyM3u(u, response.contentType) THEN likelyVerdict
    ELSE notM3uVerdict

\* lines 54-61: the call starts, arms the 10 s timer and issues the HEAD request
BasicInvoke(c, u) ==
    /\ start(c, u)
    /\ UNCHANGED <<request, reply, prefixVars, storeVars>>

\* lines 62-86: the HEAD request resolves
BasicHeadResolve(c, response) ==
    /\ pc[c] = "head"
    /\ headTimer[c] = "armed"
    /\ fetchable(url[c])
    /\ Finish(c, Return(responseVerdict(url[c], response)), "cleared", contentTimer[c],
              [ev |-> "response", method |-> "HEAD", response |-> response])
    /\ contentType' = [contentType EXCEPT ![c] = IF ok(response) THEN response.contentType ELSE @]
    /\ UNCHANGED <<url, content, analysis, request, reply, prefixVars, storeVars>>

\* lines 58-61, 88-93: the HEAD request rejects; clearTimeout is not reached
BasicHeadReject(c, error) ==
    /\ pc[c] = "head"
    /\ headTimer[c] = "armed"
    /\ Finish(c, Return(networkErrorVerdict(error)), "armed", contentTimer[c],
              [ev |-> "rejected", method |-> "HEAD", error |-> error])
    /\ UNCHANGED <<url, contentType, content, analysis, request, reply, prefixVars, storeVars>>

\* line 56: the 10 s timer fires and aborts the controller
BasicHeadTimeout(c) ==
    /\ headTimer[c] = "armed"
    /\ elapsed[c] >= HEAD_TIMEOUT_MS
    /\ IF pc[c] = "head"
       THEN Finish(c, Return(networkErrorVerdict(AbortError)), "fired", contentTimer[c],
                   [ev |-> "aborted", method |-> "HEAD", after |-> elapsed[c]])
       ELSE /\ headTimer' = [headTimer EXCEPT ![c] = "fired"]
            /\ elapsed' = [elapsed EXCEPT ![c] = 0]
            /\ UNCHANGED <<pc, contentTimer, verdict, exception, log>>
    /\ UNCHANGED <<url, contentType, content, analysis, request, reply, prefixVars, storeVars>>

BasicStep(c) ==
    \/ \E u \in Urls : BasicInvoke(c, u)
    \/ \E response \in HeadResponses : BasicHeadResolve(c, response)
    \/ \E error \in NetworkErrors : BasicHeadReject(c, error)
    \/ BasicHeadTimeout(c)
    \/ Tick(c)

\* no partial fetch has been analysed
InitPrefix ==
    /\ window = 0
    /\ sampled = NoVerdict

\* the requests of the device API that can be in flight together
Procs == {"p1", "p2"}

\* the m3u urls of the devices
DeviceUrls == {URL_A_M3U, URL_GET_PHP}

IdleHandler == [op |-> "none", pc |-> "idle"]

\* the tables are empty and no request is in flight
InitStore ==
    /\ devices = {}
    /\ device_logs = {}
    /\ handlers = [p \in Procs |-> IdleHandler]
    /\ now = 0
    /\ nextId = 1
    /\ answered = [u \in DeviceUrls |-> None]
    /\ history = [registered |-> {}, removed |-> {}]

Init ==
    /\ pc = [c \in Calls |-> "idle"]
    /\ url = [c \in Calls |-> <<>>]
    /\ headTimer = [c \in Calls |-> "unset"]
    /\ contentTimer = [c \in Calls |-> "unset"]
    /\ elapsed = [c \in Calls |-> 0]
    /\ contentType = [c \in Calls |-> None]
    /\ verdict = [c \in Calls |-> NoVerdict]
    /\ exception = [c \in Calls |-> None]
    /\ log = [c \in Calls |-> <<>>]
    /\ content = <<>>
    /\ analysis = NoVerdict
    /\ request = [c \in Calls |-> NoRequest]
    /\ reply = [c \in Calls |-> NoReply]
    /\ InitPrefix
    /\ InitStore

\* one request at a time
Next == Step("c1")

Spec == Init /\ [][Next]_vars

----------------------------------------------------------------------------
(* analyzeM3uContent applied to every content within the bounds *)

InitAnalyze ==
    /\ pc = [c \in Calls |-> "idle"]
    /\ url = [c \in Calls |-> <<>>]
    /\ headTimer = [c \in Calls |-> "unset"]
    /\ contentTimer = [c \in Calls |-> "unset"]
    /\ elapsed = [c \in Calls |-> 0]
    /\ contentType = [c \in Calls |-> None]
    /\ verdict = [c \in Calls |-> NoVerdict]
    /\ exception = [c \in Calls |-> None]
    /\ log = [c \in Calls |-> <<>>]
    /\ content \in Contents
    /\ analysis = NoVerdict
    /\ request = [c \in Calls |-> NoRequest]
    /\ reply = [c \in Calls |-> NoReply]
    /\ InitPrefix
    /\ InitStore

Analyze ==
    /\ analysis = NoVerdict
    /\ analysis' = analyzeM3uContent(content)
    /\ UNCHANGED <<content, callVars, prefixVars, storeVars>>

NextAnalyze == Analyze

SpecAnalyze == InitAnalyze /\ [][NextAnalyze]_vars

----------------------------------------------------------------------------
(* validatePlaylistHandler in front of the validator, one request at a time *)

NextHandler ==
    \/ \E req \in Requests : Receive("c1", req)
    \/ Run("c1")
    \/ Respond("c1")

SpecHandler == Init /\ [][NextHandler]_vars

----------------------------------------------------------------------------
(* Two calls of the validator in flight at once; each step is a step of one call.  The *)
(* responses are drawn from a part of the inputs of Spec.                              *)

ConcurrentUrls == {<<"h","t","t","p",":","/","/","h","/","a",".","m","3","u">>, <<"h","t","t","p",":","/","/","h","/","g","e","t",".","p","h","p">>}

ConcurrentHeadResponses ==
    {r \in HeadResponses :
        /\ r.status \in {200, 404}
        /\ r.contentType \in {Some(<<"a","u","d","i","o","/","x","-","m","p","e","g","u","r","l">>), Some(<<"t","e","x","t","/","h","t","m","l">>)}}

ConcurrentContentResponses == {r \in ContentResponses : r.status \in {200, 404}}

ConcurrentBodies ==
    {<<" ","\t","\n">>,
     <<"#","E","X","T","M","3","U","\n","#","E","X","T","I","N","F",":","-","1",",","C","h","a","n","n","e","l","1","\n","h","t","t","p",":","/","/","x","/","1","\n","#","E","X","T","I","N","F",":","-","1",",","C","h","a","n","n","e","l","2","\n","h","t","t","p",":","/","/","x","/","2","\n">>}

ConcurrentErrors == {e \in NetworkErrors : e.message # <<>>}

ConcurrentStep(c) ==
    \/ \E u \in ConcurrentUrls : Invoke(c, u)
    \/ \E response \in ConcurrentHeadResponses : HeadResolve(c, response)
    \/ \E error \in ConcurrentErrors : HeadReject(c, error)
    \/ HeadTimeout(c)
    \/ \E response \in ConcurrentContentResponses : ContentResolve(c, response)
    \/ \E error \in ConcurrentErrors : ContentReject(c, error)
    \/ ContentTimeout(c)
    \/ \E text \in ConcurrentBodies : BodyRead(c, text)
    \/ \E error \in ConcurrentErrors : BodyFail(c, error)
    \/ Tick(c)

NextConcurrent == \E c \in Calls : ConcurrentStep(c)

SpecConcurrent == Init /\ [][NextConcurrent]_vars

----------------------------------------------------------------------------
(* analyzeM3uContent applied to a content and to the prefix of it that a partial fetch *)
(* delivers (lines 173, 179-182)                                                       *)

PrefixChunks == {
    <<"#","E","X","T","M","3","U","\n","#","E","X","T","I","N","F",":","-","1",",","A","\n","h","t","t","p",":","/","/","x","/","1","\n">>,
    <<"#","E","X","T","I","N","F",":","-","1"," ","t","v","g","-","i","d","=","\"","1","\"",",","B","\r","\n","h","t","t","p","s",":","/","/","x","/","2">>,
    <<"#","E","X","T","I","N","F",":","-","1",",","C","\n">>,
    <<" ","\t","\n">>,
    <<"n","o","t"," ","a"," ","p","l","a","y","l","i","s","t","\n">>,
    <<"h","t","t","p",":","/","/","x","/","3","\n">> }

RECURSIVE ChunkSeqsOf(_, _)
ChunkSeqsOf(S, n) ==
    IF n = 0 THEN {<<>>}
    ELSE LET shorter == ChunkSeqsOf(S, n - 1)
         IN  shorter \cup {Append(s, c) : s \in {t \in shorter : Len(t) = n - 1}, c \in S}

PrefixContents == {concat(s) : s \in ChunkSeqsOf(PrefixChunks, MaxPrefixChunks)}

InitSample ==
    /\ pc = [c \in Calls |-> "idle"]
    /\ url = [c \in Calls |-> <<>>]
    /\ headTimer = [c \in Calls |-> "unset"]
    /\ contentTimer = [c \in Calls |-> "unset"]
    /\ elapsed = [c \in Calls |-> 0]
    /\ contentType = [c \in Calls |-> None]
    /\ verdict = [c \in Calls |-> NoVerdict]
    /\ exception = [c \in Calls |-> None]
    /\ log = [c \in Calls |-> <<>>]
    /\ content \in PrefixContents
    /\ analysis = NoVerdict
    /\ request = [c \in Calls |-> NoRequest]
    /\ reply = [c \in Calls |-> NoReply]
    /\ window \in 0..Len(content)
    /\ sampled = NoVerdict
    /\ InitStore

\* the characters the partial fetch delivered
prefix == SubSeq(content, 1, window)

AnalyzePrefix ==
    /\ sampled = NoVerdict
    /\ sampled' = analyzeM3uContent(prefix)
    /\ UNCHANGED <<content, analysis, window, callVars, storeVars>>

NextSample ==
    \/ Analyze
    \/ AnalyzePrefix

SpecSample == InitSample /\ [][NextSample]_vars

----------------------------------------------------------------------------
(* validateM3uUrlDetailed and validateM3uUrl side by side: call "c1" runs the first on  *)
(* every HEAD outcome and a part of the GET outcomes, call "c2" runs the second         *)

DetailedStep(c) ==
    \/ \E u \in Urls : Invoke(c, u)
    \/ \E response \in HeadResponses : HeadResolve(c, response)
    \/ \E error \in NetworkErrors : HeadReject(c, error)
    \/ HeadTimeout(c)
    \/ \E response \in ConcurrentContentResponses : ContentResolve(c, response)
    \/ \E error \in ConcurrentErrors : ContentReject(c, error)
    \/ ContentTimeout(c)
    \/ \E text \in ConcurrentBodies : BodyRead(c, text)
    \/ \E error \in ConcurrentErrors : BodyFail(c, error)
    \/ Tick(c)

NextBoth ==
    \/ DetailedStep("c1")
    \/ BasicStep("c2")

SpecBoth == Init /\ [][NextBoth]_vars

----------------------------------------------------------------------------
(* MAC addresses, src/src/lib/validation.ts, lines 4-6 and 39-46 *)

\* String.prototype.toUpperCase
toUpperCase(s) ==
    [i \in 1..Len(s) |->
        IF \E l \in DOMAIN LowerOf : LowerOf[l] = s[i]
        THEN CHOOSE l \in DOMAIN LowerOf : LowerOf[l] = s[i]
        ELSE s[i]]

Digits == {"0", "1", "2", "3", "4", "5", "6", "7", "8", "9"}

\* [0-9A-Fa-f]
HexChars == Digits \cup {"a", "b", "c", "d", "e", "f", "A", "B", "C", "D", "E", "F"}

\* [A-F0-9]
UpperHexChars == Digits \cup {"A", "B", "C", "D", "E", "F"}

\* line 5: /^([0-9A-Fa-f]{2}[:-]){5}([0-9A-Fa-f]{2})$/
macPattern(s) ==
    /\ Len(s) = 17
    /\ \A i \in 1..17 : IF i % 3 = 0 THEN s[i] \in {":", "-"} ELSE s[i] \in HexChars

\* mutant: the dashes are kept
macTransformKeepsDashes(mac) == toUpperCase(mac)

\* line 6: mac.toUpperCase().replace(/-/g, ':')
macTransform(mac) == [i \in 1..Len(mac) |-> IF toUpperCase(mac)[i] = "-" THEN ":" ELSE toUpperCase(mac)[i]]

\* lines 4-6: macAddressSchema.safeParse(mac): None, or Some(the value it yields)
macAddressSchema(mac) == IF macPattern(mac) THEN Some(macTransform(mac)) ELSE None

\* lines 43-46
isValidMacAddress(mac) == macAddressSchema(mac) # None

\* replace(/[^A-F0-9]/g, '')
hexOnly(s) == SelectSeq(s, LAMBDA ch : ch \in UpperHexChars)

\* replace(/(.{2})/g, '$1:')
RECURSIVE colonAfterPairs(_)
colonAfterPairs(s) ==
    IF Len(s) < 2 THEN s ELSE <<s[1], s[2], ":">> \o colonAfterPairs(SubSeq(s, 3, Len(s)))

\* slice(0, -1)
dropLast(s) == SubSeq(s, 1, Len(s) - 1)

\* lines 39-41
formatMacAddress(mac) == dropLast(colonAfterPairs(hexOnly(toUpperCase(mac))))

\* an address, byte by byte
MacBytes == {<<<<"a","1">>, <<"b","2">>, <<"c","3">>, <<"d","4">>, <<"e","5">>, <<"f","6">>>>}

\* the bytes at the positions in up in upper case, seps between the bytes
Spell(bytes, up, seps) ==
    concat([i \in 1..6 |->
        (IF i \in up THEN toUpperCase(bytes[i]) ELSE bytes[i]) \o (IF i < 6 THEN <<seps[i]>> ELSE <<>>)])

\* the separators of a spelling: all ":", all "-", and a mix
Separators == {<<":",":",":",":",":">>, <<"-","-","-","-","-">>, <<":","-",":",":","-">>}

\* spellings the schema accepts: lower, upper and mixed case, ":" and "-" possibly mixed
MacSpellings ==
    {Spell(b, up, seps) : b \in MacBytes, up \in {{}, 1..6, {1, 3, 5}}, seps \in Separators}

\* strings the schema rejects
RejectedMacs == {
    <<"a","1","b","2","c","3","d","4","e","5","f","6">>,
    <<"a","1",":","b","2",":","c","3",":","d","4",":","e","5">>,
    <<"g","1",":","b","2",":","c","3",":","d","4",":","e","5",":","f","6">>,
    <<"a","1",".","b","2",".","c","3",".","d","4",".","e","5",".","f","6">>,
    <<"a","1",":","b","2",":","c","3",":","d","4",":","e","5",":","f","6",":">> }

\* spellings of two addresses and a string the schema rejects, for the registrations
DeviceMacs == {
    <<"a","1",":","b","2",":","c","3",":","d","4",":","e","5",":","f","6">>,
    <<"A","1","-","B","2","-","c","3",":","d","4","-","E","5","-","F","6">>,
    <<"0","0",":","1","A",":","2","B",":","3","C",":","4","D",":","5","E">>,
    <<"a","1","b","2","c","3","d","4","e","5","f","6">> }

MacInputs == MacSpellings \cup RejectedMacs \cup DeviceMacs

----------------------------------------------------------------------------
(* The device API: registerDeviceHandler (src/src/app/api/v1/devices/register/route.ts), *)
(* getDeviceHandler, updateDeviceHandler, deleteDeviceHandler and cleanupHandler         *)
(* (src/unnamed/part_001), the cron route (src/src/app/api/cron/cleanup/route.ts, lines  *)
(* 3-36) and the tables of src/database/schema.sql.  Dates are counted in days.          *)

\* part_001 lines 25, 60, 88
SEVEN_DAYS == 7
NINETY_DAYS == 90
THIRTY_DAYS == 30

\* the dates at which something happens
Days == {0, 8, 91}

URL_INDEX == <<"h","t","t","p",":","/","/","h","/","i","n","d","e","x",".","h","t","m","l">>

GET_PHP == <<"g","e","t",".","p","h","p">>
PLAYLIST == <<"p","l","a","y","l","i","s","t">>

\* validation.ts lines 12-14
urlSchema(u) == parsesAsUrl(u) /\ (startsWith(u, HTTP_SCHEME) \/ startsWith(u, HTTPS_SCHEME))

\* validation.ts lines 17-19
m3uUrlSchema(u) == urlSchema(u) /\ (includes(u, DOT_M3U) \/ includes(u, GET_PHP) \/ includes(u, PLAYLIST))

\* validation.ts lines 97-101
verifyCaptcha(token) == Len(token) > 0

\* the captcha_token of a registration: absent, empty, or a token
Tokens == {None, Some(<<>>), Some(<<"t","o","k">>)}

\* validation.ts lines 22-29, for the fields the handler reads
deviceRegistrationSchema(body) ==
    /\ macAddressSchema(body.mac_address) # None
    /\ m3uUrlSchema(body.m3u_url)

\* validation.ts lines 32-36, for the field the model sets
deviceUpdateSchema(body) == m3uUrlSchema(body.m3u_url)

RegisterBodies(macs, urls, tokens) ==
    {None} \cup {Some([mac_address |-> m, m3u_url |-> u, captcha_token |-> t]) :
                    m \in macs, u \in urls, t \in tokens}

\* every body with a request that is let through, one body with the requests that are
\* answered before the body is read
RegisterRequests(macs, urls, tokens) ==
    [method : {"POST"}, limited : {FALSE}, body : RegisterBodies(macs, urls, tokens)]
    \cup [method : {"POST", "OPTIONS"}, limited : BOOLEAN, body : {None}]

MacRequests(macs) ==
    [method : {"GET"}, limited : {FALSE}, mac : macs]
    \cup [method : {"GET", "OPTIONS"}, limited : BOOLEAN, mac : {CHOOSE m \in macs : TRUE}]

UpdateRequests(macs, urls) ==
    [limited : {FALSE}, mac : macs, body : {None} \cup {Some([m3u_url |-> u]) : u \in urls}]
    \cup [limited : {TRUE}, mac : {CHOOSE m \in macs : TRUE}, body : {None}]

DeleteRequests(macs) ==
    [limited : {FALSE}, mac : macs] \cup [limited : {TRUE}, mac : {CHOOSE m \in macs : TRUE}]

CRON_SECRET == <<"s","3","c","r","e","t">>
BEARER == <<"B","e","a","r","e","r"," ">>

AuthHeaders == {None, Some(BEARER \o CRON_SECRET), Some(BEARER \o <<"g","u","e","s","s">>)}

\* a request to the cron route (GET /api/cron/cleanup), which calls the cleanup endpoint
\* when it is reachable, or to the cleanup endpoint itself (POST /api/v1/admin/cleanup)
CleanupRequests ==
    [route : {"cron"}, method : {"GET"}, authorization : AuthHeaders, reachable : BOOLEAN]
    \cup [route : {"admin"}, method : {"POST", "OPTIONS"}, authorization : AuthHeaders, reachable : {TRUE}]

\* how the HEAD request of validateM3uUrl can end during a cleanup
ProbeOutcomes ==
    {[kind |-> "response", response |-> r] :
        r \in {h \in HeadResponses : h.status \in {200, 404} /\ h.contentType \in {None, Some(<<"t","e","x","t","/","h","t","m","l">>)}}}
    \cup {[kind |-> "rejected", error |-> e] : e \in ConcurrentErrors}
    \cup {[kind |-> "aborted"]}

\* validation.ts lines 49-94: what validateM3uUrl returns when its HEAD request ends so
validateM3uUrl(u, outcome) ==
    IF outcome.kind = "response" THEN responseVerdict(u, outcome.response)
    ELSE IF outcome.kind = "rejected" THEN networkErrorVerdict(outcome.error)
    ELSE networkErrorVerdict(AbortError)

MSG_MAC_REGISTERED == <<"M","A","C"," ","a","d","d","r","e","s","s"," ","a","l","r","e","a","d","y"," ","r","e","g","i","s","t","e","r","e","d">>
MSG_REGISTRATION_FAILED == <<"R","e","g","i","s","t","r","a","t","i","o","n"," ","f","a","i","l","e","d">>
MSG_INVALID_MAC == <<"I","n","v","a","l","i","d"," ","M","A","C"," ","a","d","d","r","e","s","s"," ","f","o","r","m","a","t">>
MSG_NOT_FOUND == <<"D","e","v","i","c","e"," ","n","o","t"," ","f","o","u","n","d">>
MSG_UPDATE_FAILED == <<"U","p","d","a","t","e"," ","f","a","i","l","e","d">>
MSG_UNAUTHORIZED == <<"U","n","a","u","t","h","o","r","i","z","e","d">>
MSG_CLEANUP_FAILED == <<"C","l","e","a","n","u","p"," ","f","a","i","l","e","d">>

STATUS_CREATED == 201
STATUS_UNAUTHORIZED == 401
STATUS_NOT_FOUND == 404
STATUS_CONFLICT == 409

\* the handler of request p has answered
answer(op, status, error) == [op |-> op, pc |-> "done", status |-> status, error |-> error]

\* what every handler answers before it reads its arguments
throttled(op, req) ==
    IF "method" \in DOMAIN req /\ req.method = "OPTIONS" /\ op # "update" /\ op # "delete"
    THEN Some(answer(op, STATUS_OK, <<>>))
    ELSE IF req.limited THEN Some(answer(op, STATUS_TOO_MANY, MSG_TOO_MANY))
    ELSE None

Free(p) == handlers[p].pc \in {"idle", "done"}

Ids(rows) == {d.id : d \in rows}

\* schema.sql line 25: device_id REFERENCES devices(id) ON DELETE CASCADE.  The rows of
\* device_logs that remain when rows of devices are deleted
cascade(logs, rows) == {l \in logs : l.device_id \notin Ids(rows)}

\* schema.sql line 25: an insert into device_logs fails unless its device_id is the id of
\* a row of devices; the handlers do not look at the error
insertLogs(logs, rows, new) == logs \cup {l \in new : l.device_id \in Ids(rows)}

logRow(id, action) == [device_id |-> id, action |-> action, created_at |-> now]

\* history: a device row was deleted
removal(d, cause, authorization) ==
    [id |-> d.id, cause |-> cause, authorization |-> authorization,
     silent |-> IF answered[d.m3u_url] = None THEN None ELSE Some(now - answered[d.m3u_url][1])]

\* what the device API leaves alone
validatorVars == <<callVars, content, analysis, prefixVars>>

finish(p, local) == handlers' = [handlers EXCEPT ![p] = local]

\* register/route.ts lines 9-72: from the request to the answer of the first query
RegisterReceive(p, req) ==
    /\ Free(p)
    /\ LET early == throttled("register", req) IN
       IF early # None THEN finish(p, early[1])
       ELSE IF req.body = None THEN finish(p, answer("register", STATUS_BAD_REQUEST, MSG_INVALID_JSON))
       ELSE IF ~deviceRegistrationSchema(req.body[1])
            THEN finish(p, answer("register", STATUS_BAD_REQUEST, MSG_VALIDATION_FAILED))
       ELSE LET body == req.body[1]
                mac_address == macAddressSchema(body.mac_address)[1]
                existingDevice == {d \in devices : d.mac_address = mac_address}
            IN  IF existingDevice # {}
                THEN finish(p, (answer("register", STATUS_CONFLICT, MSG_MAC_REGISTERED)
                                   @@ [mac_address |-> mac_address]))
                ELSE finish(p, [op |-> "register", pc |-> "insert", mac |-> body.mac_address,
                                mac_address |-> mac_address, m3u_url |-> body.m3u_url,
                                captcha_token |-> body.captcha_token])
    /\ UNCHANGED <<devices, device_logs, now, nextId, answered, history, validatorVars>>

\* register/route.ts lines 74-145: the insert (schema.sql line 10: mac_address UNIQUE),
\* the log record and the answer
RegisterInsert(p) ==
    /\ handlers[p].op = "register" /\ handlers[p].pc = "insert"
    /\ LET h == handlers[p] IN
       IF \E d \in devices : d.mac_address = h.mac_address
       THEN /\ finish(p, (answer("register", STATUS_SERVER_ERROR, MSG_REGISTRATION_FAILED)
                             @@ [mac_address |-> h.mac_address]))
            /\ UNCHANGED <<devices, device_logs, nextId, history>>
       ELSE /\ nextId <= MaxDevices
            /\ devices' = devices \cup
                   {[id |-> nextId, mac_address |-> h.mac_address, m3u_url |-> h.m3u_url,
                     created_at |-> now, updated_at |-> now, last_active |-> None,
                     captcha_verified |-> TRUE]}
            /\ device_logs' = insertLogs(device_logs, devices', {logRow(nextId, "device_registered")})
            /\ nextId' = nextId + 1
            /\ history' = [history EXCEPT !.registered = @ \cup
                              {[id |-> nextId, mac |-> h.mac, captcha_token |-> h.captcha_token,
                                verifyCaptcha |-> FALSE]}]
            /\ finish(p, (answer("register", STATUS_CREATED, <<>>)
                             @@ [mac_address |-> h.mac_address, id |-> nextId]))
    /\ UNCHANGED <<now, answered, validatorVars>>

\* the lookup shared by the handlers of /devices/[mac] (part_001 lines 149-170, 233-290,
\* 374-405): the answer when the handler stops there, None when it goes on
lookup(op, req) ==
    LET early == throttled(op, req) IN
    IF early # None THEN early
    ELSE IF ~isValidMacAddress(req.mac)
         THEN Some((answer(op, STATUS_BAD_REQUEST, MSG_INVALID_MAC) @@ [mac |-> req.mac]))
    ELSE IF op = "update" /\ req.body = None
         THEN Some(answer(op, STATUS_BAD_REQUEST, MSG_INVALID_JSON))
    ELSE IF op = "update" /\ ~deviceUpdateSchema(req.body[1])
         THEN Some(answer(op, STATUS_BAD_REQUEST, MSG_VALIDATION_FAILED))
    ELSE IF LET formattedMac == formatMacAddress(req.mac)
            IN  {d \in devices : d.mac_address = formattedMac} = {}
         THEN Some((answer(op, STATUS_NOT_FOUND, MSG_NOT_FOUND) @@ [mac |-> req.mac]))
    ELSE None

found(req) ==
    LET formattedMac == formatMacAddress(req.mac)
    IN  CHOOSE d \in devices : d.mac_address = formattedMac

\* part_001 lines 129-181
GetReceive(p, req) ==
    /\ Free(p)
    /\ LET stop == lookup("get", req) IN
       IF stop # None THEN finish(p, stop[1])
       ELSE finish(p, [op |-> "get", pc |-> "touch", mac |-> req.mac, id |-> found(req).id])
    /\ UNCHANGED <<devices, device_logs, now, nextId, answered, history, validatorVars>>

\* part_001 lines 183-208
GetTouch(p) ==
    /\ handlers[p].op = "get" /\ handlers[p].pc = "touch"
    /\ devices' = {IF d.id = handlers[p].id THEN [d EXCEPT !.last_active = Some(now)] ELSE d : d \in devices}
    /\ finish(p, (answer("get", STATUS_OK, <<>>) @@ [mac |-> handlers[p].mac, id |-> handlers[p].id]))
    /\ UNCHANGED <<device_logs, now, nextId, answered, history, validatorVars>>

\* part_001 lines 221-290
UpdateReceive(p, req) ==
    /\ Free(p)
    /\ LET stop == lookup("update", req) IN
       IF stop # None THEN finish(p, stop[1])
       ELSE finish(p, [op |-> "update", pc |-> "apply", mac |-> req.mac, id |-> found(req).id,
                       m3u_url |-> req.body[1].m3u_url])
    /\ UNCHANGED <<devices, device_logs, now, nextId, answered, history, validatorVars>>

\* part_001 lines 292-349
UpdateApply(p) ==
    /\ handlers[p].op = "update" /\ handlers[p].pc = "apply"
    /\ LET h == handlers[p]
           formattedMac == formatMacAddress(h.mac)
           rows == {d \in devices : d.mac_address = formattedMac}
       IN  IF rows = {}
           THEN /\ finish(p, answer("update", STATUS_SERVER_ERROR, MSG_UPDATE_FAILED))
                /\ UNCHANGED <<devices, device_logs>>
           ELSE /\ devices' = (devices \ rows) \cup
                       {[d EXCEPT !.m3u_url = h.m3u_url, !.updated_at = now] : d \in rows}
                /\ device_logs' = insertLogs(device_logs, devices', {logRow(h.id, "device_updated")})
                /\ finish(p, (answer("update", STATUS_OK, <<>>) @@ [mac |-> h.mac, id |-> h.id]))
    /\ UNCHANGED <<now, nextId, answered, history, validatorVars>>

\* part_001 lines 362-405
DeleteReceive(p, req) ==
    /\ Free(p)
    /\ LET stop == lookup("delete", req) IN
       IF stop # None THEN finish(p, stop[1])
       ELSE finish(p, [op |-> "delete", pc |-> "remove", mac |-> req.mac, id |-> found(req).id])
    /\ UNCHANGED <<devices, device_logs, now, nextId, answered, history, validatorVars>>

\* part_001 lines 407-442: the row is deleted, then the log record is inserted
DeleteRemove(p) ==
    /\ handlers[p].op = "delete" /\ handlers[p].pc = "remove"
    /\ LET h == handlers[p]
           formattedMac == formatMacAddress(h.mac)
           rows == {d \in devices : d.mac_address = formattedMac}
       IN  /\ devices' = devices \ rows
           /\ device_logs' = insertLogs(cascade(device_logs, rows), devices',
                                        {logRow(h.id, "device_deleted")})
           /\ history' = [history EXCEPT !.removed = @ \cup {removal(d, "device_deleted", None) : d \in rows}]
           /\ finish(p, (answer("delete", STATUS_OK, <<>>) @@ [mac |-> h.mac, id |-> h.id]))
    /\ UNCHANGED <<now, nextId, answered, validatorVars>>

\* cron/cleanup/route.ts lines 3-36 for a request to the cron route, then part_001 lines
\* 7-30: the cleanup endpoint up to the answer of its first query
CleanupReceive(p, req) ==
    /\ Free(p)
    /\ IF req.route = "cron" /\ req.authorization # Some(BEARER \o CRON_SECRET)
       THEN finish(p, (answer("cleanup", STATUS_UNAUTHORIZED, MSG_UNAUTHORIZED) @@ [route |-> req.route]))
       ELSE IF req.route = "cron" /\ ~req.reachable
       THEN finish(p, (answer("cleanup", STATUS_SERVER_ERROR, MSG_CLEANUP_FAILED) @@ [route |-> req.route]))
       ELSE IF req.method = "OPTIONS"
       THEN finish(p, (answer("cleanup", STATUS_OK, <<>>) @@ [route |-> req.route]))
       ELSE finish(p, [op |-> "cleanup", pc |-> "probe", route |-> req.route,
                       authorization |-> req.authorization,
                       deadUrls |-> 0,
                       pending |-> {[id |-> d.id, m3u_url |-> d.m3u_url] :
                                       d \in {e \in devices : e.updated_at < now - SEVEN_DAYS}}])
    /\ UNCHANGED <<devices, device_logs, now, nextId, answered, history, validatorVars>>

\* part_001 lines 33-56: one turn of the loop over the selected devices; the HEAD request
\* of validateM3uUrl ends as outcome says
CleanupProbe(p, outcome) ==
    /\ handlers[p].op = "cleanup" /\ handlers[p].pc = "probe"
    /\ \E device \in handlers[p].pending :
        LET h == handlers[p]
            m3uCheck == validateM3uUrl(device.m3u_url, outcome)
            rows == {d \in devices : d.id = device.id}
        IN  /\ answered' = IF m3uCheck.isValid
                           THEN [answered EXCEPT ![device.m3u_url] = Some(now)]
                           ELSE answered
            /\ IF ~m3uCheck.isValid
               THEN /\ devices' = devices \ rows
                    /\ device_logs' = insertLogs(cascade(device_logs, rows), devices',
                                                 {logRow(device.id, "auto_cleanup_dead_url")})
                    /\ history' = [history EXCEPT !.removed = @ \cup
                                      {removal(d, "auto_cleanup_dead_url", h.authorization) : d \in rows}]
                    /\ finish(p, [h EXCEPT !.pending = @ \ {device}, !.deadUrls = @ + 1])
               ELSE /\ finish(p, [h EXCEPT !.pending = @ \ {device}])
                    /\ UNCHANGED <<devices, device_logs, history>>
    /\ UNCHANGED <<now, nextId, validatorVars>>

\* part_001 lines 58-104: the inactive devices, the old logs and the answer
CleanupFinish(p) ==
    /\ handlers[p].op = "cleanup" /\ handlers[p].pc = "probe" /\ handlers[p].pending = {}
    /\ LET h == handlers[p]
           inactiveDevices ==
               {d \in devices : /\ d.last_active = None \/ d.last_active[1] < now - NINETY_DAYS
                                /\ d.created_at < now - NINETY_DAYS}
           logged == insertLogs(cascade(device_logs, inactiveDevices), devices',
                                {logRow(d.id, "auto_cleanup_inactive") : d \in inactiveDevices})
           oldLogs == {l \in logged : l.created_at < now - THIRTY_DAYS}
       IN  /\ devices' = devices \ inactiveDevices
           /\ device_logs' = logged \ oldLogs
           /\ history' = [history EXCEPT !.removed = @ \cup
                             {removal(d, "auto_cleanup_inactive", h.authorization) : d \in inactiveDevices}]
           /\ finish(p, (answer("cleanup", STATUS_OK, <<>>) @@
                         [route |-> h.route, authorization |-> h.authorization,
                          deadUrls |-> h.deadUrls,
                          inactiveDevices |-> Cardinality(inactiveDevices),
                          oldLogs |-> Cardinality(oldLogs)]))
    /\ UNCHANGED <<now, nextId, answered, validatorVars>>

\* time passes
Advance(t) ==
    /\ t > now
    /\ now' = t
    /\ UNCHANGED <<devices, device_logs, handlers, nextId, answered, history, validatorVars>>

----------------------------------------------------------------------------
(* The device API, one request at a time *)

RegisterStep(p, macs, urls, tokens) ==
    \/ \E req \in RegisterRequests(macs, urls, tokens) : RegisterReceive(p, req)
    \/ RegisterInsert(p)

GetStep(p, macs) ==
    \/ \E req \in MacRequests(macs) : GetReceive(p, req)
    \/ GetTouch(p)

UpdateStep(p, macs, urls) ==
    \/ \E req \in UpdateRequests(macs, urls) : UpdateReceive(p, req)
    \/ UpdateApply(p)

DeleteStep(p, macs) ==
    \/ \E req \in DeleteRequests(macs) : DeleteReceive(p, req)
    \/ DeleteRemove(p)

CleanupStep(p) ==
    \/ \E req \in CleanupRequests : CleanupReceive(p, req)
    \/ \E outcome \in ProbeOutcomes : CleanupProbe(p, outcome)
    \/ CleanupFinish(p)

\* the spellings under which the devices of the cleanup and of the race are registered
RegisteredMacs == {<<"a","1",":","b","2",":","c","3",":","d","4",":","e","5",":","f","6">>,
                <<"0","0","-","1","A","-","2","B","-","3","C","-","4","D","-","5","E">>}

NextDevices ==
    \/ RegisterStep("p1", RegisteredMacs, {URL_A_M3U, URL_INDEX}, {Some(<<"t","o","k">>)})
    \/ DeleteStep("p1", RegisteredMacs)
    \/ CleanupStep("p1")
    \/ \E t \in Days : Advance(t)

SpecDevices == Init /\ [][NextDevices]_vars

----------------------------------------------------------------------------
(* The device API, two registrations at a time *)

NextRace ==
    \E p \in Procs : RegisterStep(p, RegisteredMacs, {URL_A_M3U}, Tokens)

SpecRace == Init /\ [][NextRace]_vars

----------------------------------------------------------------------------
(* The device API, devices registered and read under every spelling *)

NextMac ==
    \/ RegisterStep("p1", DeviceMacs, {URL_A_M3U}, {Some(<<"t","o","k">>)})
    \/ GetStep("p1", MacInputs)
    \/ UpdateStep("p1", MacInputs, {URL_GET_PHP, URL_INDEX})

SpecMac == Init /\ [][NextMac]_vars

----------------------------------------------------------------------------
(* What the claims speak of, stated on the log of a call and on the text   *)
(* itself, independently of the operators above                            *)

Done(c) == pc[c] = "done"

Has(v, field) == field \in DOMAIN v

Events(c, ev, method) ==
    {i \in DOMAIN log[c] : log[c][i].ev = ev /\ Has(log[c][i], "method") /\ log[c][i].method = method}

Issued(c, method) == Events(c, "fetch", method) # {}

\* the HEAD request resolved with this response
HeadResponded(c) == Events(c, "response", "HEAD") # {}
HeadResponseOf(c) == log[c][CHOOSE i \in Events(c, "response", "HEAD") : TRUE].response

Non2xx(response) == response.status < 200 \/ response.status > 299

\* the HEAD request failed: it rejected or was aborted by the timer
HeadFailed(c) == Events(c, "rejected", "HEAD") \cup Events(c, "aborted", "HEAD") # {}

\* the content fetch failed: the GET rejected, was aborted, answered non-2xx, or its body
\* could not be read
ContentFailed(c) ==
    \/ Events(c, "rejected", "GET") \cup Events(c, "aborted", "GET") # {}
    \/ \E i \in Events(c, "response", "GET") : Non2xx(log[c][i].response)
    \/ \E i \in DOMAIN log[c] : log[c][i].ev = "bodyFailed"

\* the verdict reports a failure in its error field
ReportsError(v) == Has(v, "error") /\ Len(v.error) > 0

\* ".m3u" occurs in u in some letter case
MentionsM3u(u) ==
    \E i \in 1..(Len(u) - 3) :
        /\ u[i] = "."
        /\ u[i + 1] \in {"m", "M"}
        /\ u[i + 2] = "3"
        /\ u[i + 3] \in {"u", "U"}

\* the content-type allow-list of the specification
AllowList == {
    <<"a","p","p","l","i","c","a","t","i","o","n","/","x","-","m","p","e","g","u","r","l">>,
    <<"a","u","d","i","o","/","x","-","m","p","e","g","u","r","l">>,
    <<"t","e","x","t","/","p","l","a","i","n">>,
    <<"a","p","p","l","i","c","a","t","i","o","n","/","o","c","t","e","t","-","s","t","r","e","a","m">> }

OnAllowList(ct) ==
    ct # None /\ \E t \in AllowList : \E i \in 0..(Len(ct[1]) - Len(t)) : SubSeq(ct[1], i + 1, i + Len(t)) = t

\* the text has p at position i
At(text, i, p) == i + Len(p) - 1 <= Len(text) /\ SubSeq(text, i, i + Len(p) - 1) = p

\* only white space lies between position k and the start of its line, k included
RECURSIVE LeadingBlank(_, _)
LeadingBlank(text, k) ==
    \/ k = 0
    \/ text[k] = "\n"
    \/ text[k] \in WhiteSpace /\ LeadingBlank(text, k - 1)

\* the lines that are not empty once trimmed, each named by the position of its first
\* character that is not white space
TrimmedLineStarts(text) ==
    {p \in 1..Len(text) : text[p] \notin WhiteSpace /\ LeadingBlank(text, p - 1)}

FirstTrimmedLine(text) == CHOOSE p \in TrimmedLineStarts(text) : \A q \in TrimmedLineStarts(text) : p <= q

CountExtinf(text) == Cardinality({p \in TrimmedLineStarts(text) : At(text, p, EXTINF)})

CountUrls(text) ==
    Cardinality({p \in TrimmedLineStarts(text) :
                    /\ text[p] # "#"
                    /\ (At(text, p, HTTP_SCHEME) \/ At(text, p, HTTPS_SCHEME))})

HeaderFirst(text) == TrimmedLineStarts(text) # {} /\ At(text, FirstTrimmedLine(text), EXTM3U)

MentionsTvg(text) == \E i \in 1..Len(text) : At(text, i, TVG)

Analyzed == analysis # NoVerdict

----------------------------------------------------------------------------
(* Claims about validateM3uUrlDetailed, checked under Spec *)

\* a three-digit status as the template literal prints it
StatusDigits(n) ==
    LET d == [i \in 0..9 |-> <<"0", "1", "2", "3", "4", "5", "6", "7", "8", "9">>[i + 1]]
    IN  <<d[n \div 100], d[(n \div 10) % 10], d[n % 10]>>

\* the content-type header of the HEAD response, as the log holds it
HeadContentType(c) == HeadResponseOf(c).contentType

\* C1 as stated: the call never throws, it ends by returning a verdict, and every failure
\* (of the HEAD probe, of the GET probe, of the body read) is reported in the error field.
C1_EveryFailureInError ==
    \A c \in Calls :
        /\ exception[c] = None
        /\ Done(c) =>
            /\ Has(verdict[c], "isValid")
            /\ (HeadFailed(c) \/ ContentFailed(c)) => ReportsError(verdict[c])

\* C1 as amended: the call never throws and ends by returning a verdict; every failure of
\* the HEAD probe (rejection, abort, non-2xx status) is reported in the error field of an
\* invalid verdict; a failure of the content fetch is not reported.
C1_NeverThrows ==
    \A c \in Calls :
        /\ exception[c] = None
        /\ Done(c) =>
            /\ Has(verdict[c], "isValid")
            /\ (HeadFailed(c) \/ (HeadResponded(c) /\ Non2xx(HeadResponseOf(c))))
                => (verdict[c].isValid = FALSE /\ ReportsError(verdict[c]))
            /\ ContentFailed(c) => ~Has(verdict[c], "error")

\* a call whose HEAD request rejected returned the network error as data
C1_Witness ==
    \E c \in Calls :
        /\ Done(c) /\ Events(c, "rejected", "HEAD") # {}
        /\ exception[c] = None
        /\ verdict[c] = [isValid |-> FALSE, error |-> <<"N","e","t","w","o","r","k"," ","e","r","r","o","r",":"," ","f","e","t","c","h"," ","f","a","i","l","e","d">>]

\* C2: every verdict has exactly one of isValid = true and a non-empty error.
C2_ValidXorError ==
    \A c \in Calls :
        verdict[c] # NoVerdict =>
            /\ Has(verdict[c], "isValid")
            /\ verdict[c].isValid = TRUE => ~Has(verdict[c], "error")
            /\ verdict[c].isValid = FALSE => ReportsError(verdict[c])

\* a call returned the copy of a valid analysis
C2_Witness ==
    \E c \in Calls :
        /\ Done(c) /\ log[c][Len(log[c])].ev = "body"
        /\ verdict[c].isValid = TRUE /\ Has(verdict[c], "channelCount")

\* C3: a HEAD response with a non-2xx status ends the call with isValid = false and error
\* "HTTP <status>: <status text>", without channelCount or format and without a GET.
C3_HeadNon2xx ==
    \A c \in Calls :
        (HeadResponded(c) /\ Non2xx(HeadResponseOf(c))) =>
            LET r == HeadResponseOf(c) IN
            /\ Done(c)
            /\ verdict[c] = [isValid |-> FALSE,
                             error |-> <<"H","T","T","P"," ">> \o StatusDigits(r.status) \o <<":"," ">> \o r.statusText]
            /\ r.status = 404 => \E i \in 1..Len(verdict[c].error) : At(verdict[c].error, i, <<"4","0","4">>)
            /\ ~Issued(c, "GET")

\* a call answered 404 Not Found on HEAD returned "HTTP 404: Not Found"
C3_Witness ==
    \E c \in Calls :
        /\ HeadResponded(c) /\ HeadResponseOf(c).status = 404
        /\ verdict[c] = [isValid |-> FALSE, error |-> <<"H","T","T","P"," ","4","0","4",":"," ","N","o","t"," ","F","o","u","n","d">>]

\* C4: a HEAD probe never waits beyond 10 seconds: it is aborted by its timer then, and not
\* before; an aborted or rejected HEAD ends the call with isValid = false and a network
\* error, and no GET is issued.
C4_HeadTimeout ==
    \A c \in Calls :
        /\ pc[c] = "head" => (headTimer[c] = "armed" /\ elapsed[c] < 10000 + TickMs)
        /\ \A i \in Events(c, "aborted", "HEAD") :
                /\ log[c][i].after >= 10000
                /\ headTimer[c] = "fired"
                /\ verdict[c] = [isValid |-> FALSE,
                                 error |-> <<"N","e","t","w","o","r","k"," ","e","r","r","o","r",":"," ","T","h","i","s"," ","o","p","e","r","a","t","i","o","n"," ","w","a","s"," ","a","b","o","r","t","e","d">>]
        /\ HeadFailed(c) =>
                /\ Done(c)
                /\ verdict[c].isValid = FALSE
                /\ ReportsError(verdict[c]) /\ At(verdict[c].error, 1, <<"N","e","t","w","o","r","k"," ","e","r","r","o","r",":"," ">>)
                /\ DOMAIN verdict[c] = {"isValid", "error"}
                /\ ~Issued(c, "GET")

\* a call whose HEAD probe was aborted by the timer
C4_Witness ==
    \E c \in Calls :
        /\ Done(c) /\ Events(c, "aborted", "HEAD") # {}
        /\ headTimer[c] = "fired" /\ verdict[c].isValid = FALSE

\* C5: a 2xx HEAD response whose content-type matches no allow-list entry, for a url without
\* ".m3u" (in any letter case), ends the call with isValid = false and error "URL does not
\* appear to be a valid M3U playlist"; the HEAD request is the only request of the call.
C5_NotM3uNoGet ==
    \A c \in Calls :
        (/\ HeadResponded(c) /\ ~Non2xx(HeadResponseOf(c))
         /\ ~OnAllowList(HeadContentType(c)) /\ ~MentionsM3u(url[c])) =>
            /\ Done(c)
            /\ verdict[c] = [isValid |-> FALSE,
                             error |-> <<"U","R","L"," ","d","o","e","s"," ","n","o","t"," ","a","p","p","e","a","r"," ","t","o"," ","b","e"," ","a"," ","v","a","l","i","d"," ","M","3","U"," ","p","l","a","y","l","i","s","t">>]
            /\ ~Issued(c, "GET")
            /\ Cardinality({i \in DOMAIN log[c] : log[c][i].ev = "fetch"}) = 1

\* a call for a url without ".m3u" answered 200 with an unlisted content type
C5_Witness ==
    \E c \in Calls :
        /\ Done(c) /\ HeadResponded(c) /\ HeadResponseOf(c).status = 200
        /\ HeadContentType(c) = Some(<<"t","e","x","t","/","h","t","m","l">>) /\ ~MentionsM3u(url[c])
        /\ verdict[c].isValid = FALSE /\ ~Issued(c, "GET")

\* C6 as stated: a failed content fetch gives isValid = true with format equal to the HEAD
\* content-type header, or "unknown" when that header is absent, no error, no channelCount.
C6_FormatIsHeaderOrUnknown ==
    \A c \in Calls :
        ContentFailed(c) =>
            /\ Done(c)
            /\ verdict[c] = [isValid |-> TRUE,
                             format |-> IF HeadContentType(c) = None
                                        THEN <<"u","n","k","n","o","w","n">> ELSE HeadContentType(c)[1]]

\* C6 as amended: format is "unknown" when the header is absent or empty.
C6_ContentFailureTolerated ==
    \A c \in Calls :
        /\ \A i \in Events(c, "aborted", "GET") : log[c][i].after >= 15000
        /\ ContentFailed(c) =>
            /\ Done(c)
            /\ verdict[c] = [isValid |-> TRUE,
                             format |-> IF HeadContentType(c) \in {None, Some(<<>>)}
                                        THEN <<"u","n","k","n","o","w","n">> ELSE HeadContentType(c)[1]]

\* a call whose GET probe was aborted by its timer returned the HEAD content type as format
C6_Witness ==
    \E c \in Calls :
        /\ Done(c) /\ Events(c, "aborted", "GET") # {}
        /\ verdict[c] = [isValid |-> TRUE, format |-> <<"a","u","d","i","o","/","x","-","m","p","e","g","u","r","l">>]

----------------------------------------------------------------------------
(* Claims about analyzeM3uContent, checked under SpecAnalyze *)

\* C7: for a content whose first non-empty trimmed line starts with "#EXTM3U" and that has
\* at least one "#EXTINF:" line and at least one http(s) URL line, the analysis is valid and
\* channelCount is the smaller of the number of "#EXTINF:" lines and the number of URL lines.
C7_ChannelCountIsMin ==
    (Analyzed /\ HeaderFirst(content) /\ CountExtinf(content) >= 1 /\ CountUrls(content) >= 1)
    => /\ Has(analysis, "isValid") /\ analysis.isValid = TRUE
       /\ Has(analysis, "channelCount")
       /\ analysis.channelCount =
            (IF CountExtinf(content) <= CountUrls(content)
             THEN CountExtinf(content) ELSE CountUrls(content))

\* a playlist with three "#EXTINF:" lines and two URL lines was analysed: channelCount 2
C7_Witness ==
    /\ Analyzed /\ HeaderFirst(content)
    /\ CountExtinf(content) = 3 /\ CountUrls(content) = 2
    /\ analysis.channelCount = 2

\* C8: a valid analysis has format "M3U Extended" exactly when some line of the content
\* (any line, not only an "#EXTINF:" line) contains "tvg-", and format "M3U" otherwise.
C8_FormatFollowsTvg ==
    (Analyzed /\ Has(analysis, "isValid") /\ analysis.isValid = TRUE)
    => /\ Has(analysis, "format")
       /\ analysis.format = (IF MentionsTvg(content) THEN <<"M","3","U"," ","E","x","t","e","n","d","e","d">> ELSE <<"M","3","U">>)

\* a valid playlist whose only "tvg-" is in a comment line was analysed as "M3U Extended"
C8_Witness ==
    /\ Analyzed /\ Has(analysis, "format") /\ analysis.format = <<"M","3","U"," ","E","x","t","e","n","d","e","d">>
    /\ \A i \in 1..Len(content) : At(content, i, TVG) => At(content, i - 2, <<"#"," ","t","v","g","-">>)

\* C9: a content that has a non-empty trimmed line and whose first such line does not start
\* with "#EXTM3U" is invalid with error "Missing #EXTM3U header", whatever follows.
C9_MissingHeader ==
    (Analyzed /\ TrimmedLineStarts(content) # {} /\ ~HeaderFirst(content))
    => analysis = [isValid |-> FALSE, error |-> <<"M","i","s","s","i","n","g"," ","#","E","X","T","M","3","U"," ","h","e","a","d","e","r">>]

\* a content without header but with "#EXTINF:" and URL lines, and with "#EXTM3U" further on
C9_Witness ==
    /\ Analyzed /\ TrimmedLineStarts(content) # {} /\ ~HeaderFirst(content)
    /\ CountExtinf(content) >= 1 /\ CountUrls(content) >= 1
    /\ \E i \in 1..Len(content) : At(content, i, EXTM3U)
    /\ analysis.error = <<"M","i","s","s","i","n","g"," ","#","E","X","T","M","3","U"," ","h","e","a","d","e","r">>

\* C10: with a valid header, no "#EXTINF:" line gives error "No channels found in playlist"
\* (also when there is no URL line either), and an "#EXTINF:" line but no URL line gives
\* error "No valid URLs found in playlist".
C10_NoChannelsThenNoUrls ==
    (Analyzed /\ HeaderFirst(content))
    => /\ CountExtinf(content) = 0
            => analysis = [isValid |-> FALSE, error |-> <<"N","o"," ","c","h","a","n","n","e","l","s"," ","f","o","u","n","d"," ","i","n"," ","p","l","a","y","l","i","s","t">>]
       /\ (CountExtinf(content) >= 1 /\ CountUrls(content) = 0)
            => analysis = [isValid |-> FALSE, error |-> <<"N","o"," ","v","a","l","i","d"," ","U","R","L","s"," ","f","o","u","n","d"," ","i","n"," ","p","l","a","y","l","i","s","t">>]

\* a header-only playlist (no channel, no URL) was analysed
C10_Witness ==
    /\ Analyzed /\ HeaderFirst(content)
    /\ CountExtinf(content) = 0 /\ CountUrls(content) = 0
    /\ analysis.error = <<"N","o"," ","c","h","a","n","n","e","l","s"," ","f","o","u","n","d"," ","i","n"," ","p","l","a","y","l","i","s","t">>

----------------------------------------------------------------------------
(* Further claims about validateM3uUrlDetailed, checked under Spec *)

\* the bodies read by a call
BodyEvents(c) == {i \in DOMAIN log[c] : log[c][i].ev = "body"}

\* the text is empty or holds white space only
Blank(text) == \A i \in 1..Len(text) : text[i] \in WhiteSpace

\* C11: a GET answered 2xx with an empty or white-space-only body ends the call with
\* isValid = false and error "Empty content", not with the HEAD-only verdict; the analysis
\* never reads the first line of an empty list of lines.
C11_EmptyContent ==
    \A c \in Calls :
        \A i \in BodyEvents(c) :
            /\ analyzeM3uContent(log[c][i].text) # TypeErrorThrown
            /\ Blank(log[c][i].text) =>
                /\ Done(c)
                /\ verdict[c] = [isValid |-> FALSE, error |-> <<"E","m","p","t","y"," ","c","o","n","t","e","n","t">>]

\* a call read a body of white space only
C11_Witness ==
    \E c \in Calls :
        \E i \in BodyEvents(c) :
            /\ Len(log[c][i].text) > 0 /\ Blank(log[c][i].text)
            /\ verdict[c] = [isValid |-> FALSE, error |-> <<"E","m","p","t","y"," ","c","o","n","t","e","n","t">>]

\* the positions of the log at which a request was issued
Fetches(c) == {i \in DOMAIN log[c] : log[c][i].ev = "fetch"}

\* the positions of the log at which a request failed
Failures(c) ==
    {i \in DOMAIN log[c] :
        \/ log[c][i].ev \in {"rejected", "aborted", "bodyFailed"}
        \/ log[c][i].ev = "response" /\ Non2xx(log[c][i].response)}

\* C13: within one call at most one HEAD and at most one GET request are issued; the GET
\* is issued only after the HEAD request has completed with a 2xx status and its
\* content-type or the URL has passed the heuristic; and no request is issued after a
\* request has failed.
C13_ProbesOrderedOnce ==
    \A c \in Calls :
        /\ Cardinality(Events(c, "fetch", "HEAD")) <= 1
        /\ Cardinality(Events(c, "fetch", "GET")) <= 1
        /\ \A i \in Events(c, "fetch", "GET") :
              \E j \in Events(c, "response", "HEAD") :
                  /\ j < i
                  /\ ~Non2xx(log[c][j].response)
                  /\ (OnAllowList(log[c][j].response.contentType) \/ MentionsM3u(url[c]))
                  /\ \E h \in Events(c, "fetch", "HEAD") : h < j
        /\ \A i \in Failures(c) : \A j \in Fetches(c) : j < i

\* a call whose GET request failed has returned without another request
C13_Witness ==
    /\ Done("c1")
    /\ Issued("c1", "GET")
    /\ Failures("c1") \cap (Events("c1", "rejected", "GET") \cup Events("c1", "aborted", "GET")) # {}

\* C14: every network wait of a call is covered by an armed timer: the 10 s timer while
\* the HEAD request is pending, the 15 s timer while the GET request is pending and while
\* the body of its response is being read, so that no stalling server holds a call for ever.
C14_EveryWaitTimed ==
    \A c \in Calls :
        /\ pc[c] = "head" => headTimer[c] = "armed"
        /\ pc[c] \in {"content", "body"} => contentTimer[c] = "armed"

\* C15: the GET request asks for exactly the first 2048 bytes, offsets 0 through 2047, and
\* the content that is analysed is never longer than 2048 bytes.
C15_First2048Bytes ==
    \A c \in Calls :
        /\ \A i \in Events(c, "fetch", "GET") : log[c][i].range = <<0, 2047>>
        /\ \A i \in BodyEvents(c) : Len(log[c][i].text) <= 2048

\* the path of an absolute URL: from the first "/" after the authority up to the query
\* string or the fragment
AuthorityStart(u) == (CHOOSE i \in 1..Len(u) : At(u, i, <<":","/","/">>) /\ \A j \in 1..(i - 1) : ~At(u, j, <<":","/","/">>)) + 3

PathStart(u) ==
    IF \E i \in AuthorityStart(u)..Len(u) : u[i] \in {"/", "?", "#"}
    THEN CHOOSE i \in AuthorityStart(u)..Len(u) :
            u[i] \in {"/", "?", "#"} /\ \A j \in AuthorityStart(u)..(i - 1) : u[j] \notin {"/", "?", "#"}
    ELSE Len(u) + 1

PathEnd(u) ==
    IF \E i \in PathStart(u)..Len(u) : u[i] \in {"?", "#"}
    THEN (CHOOSE i \in PathStart(u)..Len(u) :
            u[i] \in {"?", "#"} /\ \A j \in PathStart(u)..(i - 1) : u[j] \notin {"?", "#"}) - 1
    ELSE Len(u)

PathOf(u) == SubSeq(u, PathStart(u), PathEnd(u))

\* the HEAD request was answered with a 2xx status
HeadSucceeded(c) == HeadResponded(c) /\ ~Non2xx(HeadResponseOf(c))

ParsingSucceeded(c) ==
    \E i \in BodyEvents(c) :
        /\ HeaderFirst(log[c][i].text)
        /\ CountExtinf(log[c][i].text) >= 1
        /\ CountUrls(log[c][i].text) >= 1

\* the shape of a verdict, with the formats a verdict without channelCount may carry
VerdictShape(c, unknownWhen(_)) ==
    LET v == verdict[c]
    IN  /\ Has(v, "channelCount") =>
              /\ ParsingSucceeded(c)
              /\ v.isValid
              /\ v.channelCount >= 1
              /\ v.format \in {<<"M","3","U">>, <<"M","3","U"," ","E","x","t","e","n","d","e","d">>}
        /\ (v.isValid /\ ~Has(v, "channelCount")) =>
              /\ HeadResponded(c)
              /\ Has(v, "format")
              /\ v.format = IF unknownWhen(HeadContentType(c)) THEN <<"u","n","k","n","o","w","n">> ELSE HeadContentType(c)[1]
        /\ ~v.isValid => (~Has(v, "channelCount") /\ ~Has(v, "format"))

Absent(ct) == ct = None

AbsentOrEmpty(ct) == ct = None \/ ct[1] = <<>>

\* C21 as stated: channelCount is present only when content parsing succeeded, and then
\* isValid = true, channelCount >= 1 and format is "M3U" or "M3U Extended"; a valid verdict
\* without channelCount has the HEAD content-type as format, and "unknown" only when the
\* HEAD response carried no content-type; an invalid verdict has neither channelCount nor
\* format.
C21_ShapeUnknownIffAbsent ==
    \A c \in Calls : (Done(c) /\ verdict[c] # NoVerdict) => VerdictShape(c, Absent)

\* C21, amended: format is "unknown" when the content-type header is absent or empty.
C21_VerdictShape ==
    \A c \in Calls : (Done(c) /\ verdict[c] # NoVerdict) => VerdictShape(c, AbsentOrEmpty)

\* a valid verdict without channelCount after a HEAD response with an empty content-type
C21_Witness ==
    /\ Done("c1")
    /\ verdict["c1"] # NoVerdict
    /\ verdict["c1"].isValid
    /\ ~Has(verdict["c1"], "channelCount")
    /\ HeadContentType("c1") = Some(<<>>)

\* C24: when a call has returned, every timer it armed has been cleared or has fired; no
\* timer of a finished call is still pending.
C24_NoTimerLeftPending ==
    \A c \in Calls : Done(c) => (headTimer[c] # "armed" /\ contentTimer[c] # "armed")

----------------------------------------------------------------------------
(* Claims about validatePlaylistHandler, checked under SpecHandler *)

Received(c) == request[c] # NoRequest

Replied(c) == reply[c] # NoReply

\* the validator was called for this request
ValidatorInvoked(c) == pc[c] # "idle" \/ log[c] # <<>>

\* an absolute URL of scheme http or https
HttpUrl(u) == At(u, 1, <<"h","t","t","p",":","/","/">>) \/ At(u, 1, <<"h","t","t","p","s",":","/","/">>)

\* C16: the handler calls the validator only with an absolute URL whose scheme is http or
\* https; every other url of a request body is rejected before the call.
C16_OnlyHttpUrls ==
    \A c \in Calls : (Received(c) /\ ValidatorInvoked(c)) => HttpUrl(url[c])

\* C17: whenever the validator returned a verdict, valid or not, the handler answers with
\* status 200 and the body {success: true, data: the verdict}; it answers 500 only when an
\* exception left the validator.
C17_VerdictWrapped ==
    \A c \in Calls :
        (Received(c) /\ Replied(c) /\ ValidatorInvoked(c)) =>
            /\ exception[c] = None =>
                  /\ reply[c].status = 200
                  /\ reply[c].body = [success |-> TRUE, data |-> verdict[c]]
            /\ reply[c].status = 500 => exception[c] # None

\* the handler has answered for a verdict that is not valid
C17_Witness ==
    /\ Replied("c1")
    /\ ValidatorInvoked("c1")
    /\ verdict["c1"] # NoVerdict
    /\ ~verdict["c1"].isValid
    /\ reply["c1"].body.success

\* the text has the shape scheme://rest
UrlShaped(s) == \E i \in 2..Len(s) : At(s, i, <<":","/","/">>)

\* the body is not JSON, or it has no url that is a URL-shaped string
BadBody(req) ==
    \/ ~req.body.parsed
    \/ req.body.value.type # "object"
    \/ ~Has(req.body.value.props, "url")
    \/ req.body.value.props.url.type # "string"
    \/ ~UrlShaped(req.body.value.props.url.value)

----------------------------------------------------------------------------
(* Claims about calls in flight together, checked under SpecConcurrent *)

\* what a call observed of the network: its requests and their outcomes, in order, without
\* the times at which they came
Observed(c) ==
    [i \in DOMAIN log[c] |->
        IF Has(log[c][i], "after")
        THEN [f \in DOMAIN log[c][i] \ {"after"} |-> log[c][i][f]]
        ELSE log[c][i]]

\* C12: determinism.  Two calls on the same URL that observed the same outcome of the HEAD
\* request, the same outcome of the GET request and the same body have returned the same
\* verdict, whatever the times at which the responses came and whatever ran beside them.
C12_Deterministic ==
    \A c \in Calls : \A d \in Calls :
        (Done(c) /\ Done(d) /\ url[c] = url[d] /\ Observed(c) = Observed(d))
            => (verdict[c] = verdict[d] /\ exception[c] = exception[d])

\* two calls on the same URL have both read the same body and returned
C12_Witness ==
    /\ Done("c1") /\ Done("c2")
    /\ url["c1"] = url["c2"]
    /\ Observed("c1") = Observed("c2")
    /\ BodyEvents("c1") # {}
    /\ verdict["c1"] # NoVerdict

\* everything a call holds
CallState(c) ==
    <<pc[c], url[c], headTimer[c], contentTimer[c], elapsed[c], contentType[c], verdict[c],
      exception[c], log[c], request[c], reply[c]>>

\* the verdict of a call that ran alone on url u and observed obs
SoloVerdict(u, obs) ==
    LET last == obs[Len(obs)]
        head == obs[CHOOSE i \in DOMAIN obs : obs[i].ev = "response" /\ obs[i].method = "HEAD"].response
    IN  IF last.ev = "rejected" /\ last.method = "HEAD" THEN networkErrorVerdict(last.error)
        ELSE IF last.ev = "aborted" /\ last.method = "HEAD" THEN networkErrorVerdict(AbortError)
        ELSE IF last.ev = "response" /\ last.method = "HEAD"
             THEN IF ok(last.response) THEN notM3uVerdict ELSE httpErrorVerdict(last.response)
        ELSE IF last.ev = "body" /\ analyzeM3uContent(last.text) # TypeErrorThrown
             THEN analysisVerdict(analyzeM3uContent(last.text))
        ELSE basicVerdict(head.contentType)

\* every call that has returned has the verdict of a call running alone
SoloVerdicts == \A c \in Calls : Done(c) => (exception[c] = None /\ verdict[c] = SoloVerdict(url[c], Observed(c)))

\* a step changes what one call holds and nothing of any other call
OneCallPerStep ==
    \A c \in Calls : \A d \in Calls \ {c} : CallState(c)' = CallState(c) \/ CallState(d)' = CallState(d)

\* C19: calls in flight together do not interfere.  In every interleaving the verdict of a
\* call is the verdict it would return alone on the same url and the same responses, and a
\* step of one call, the firing or the clearing of its timers included, leaves the probes,
\* the timers and the verdict of every other call as they were.
C19_NoInterference == []SoloVerdicts /\ [][OneCallPerStep]_vars

\* the timer of one call fired and aborted its HEAD request while the GET request of the
\* other call has been pending for some time, its own timer still armed
C19_Witness ==
    /\ Done("c2")
    /\ Events("c2", "aborted", "HEAD") # {}
    /\ headTimer["c2"] = "fired"
    /\ pc["c1"] = "content"
    /\ contentTimer["c1"] = "armed"
    /\ elapsed["c1"] >= TickMs

----------------------------------------------------------------------------
(* Claims about the analysis of a prefix, checked under SpecSample *)

BothAnalysed == analysis # NoVerdict /\ sampled # NoVerdict

\* C22: channelCount is a lower bound.  Whenever the analysis of a prefix of a content
\* succeeds, the analysis of the content succeeds with a channelCount that is not smaller,
\* and the prefix, whose last line may be cut anywhere, has no more "#EXTINF:" lines and no
\* more url lines than the content.
C22_PrefixLowerBound ==
    BothAnalysed =>
        /\ CountExtinf(prefix) <= CountExtinf(content)
        /\ CountUrls(prefix) <= CountUrls(content)
        /\ sampled.isValid =>
              /\ analysis.isValid
              /\ sampled.channelCount <= analysis.channelCount

\* the prefix ends inside a line, its analysis succeeded and found fewer channels than the
\* analysis of the whole content
C22_Witness ==
    /\ BothAnalysed
    /\ window >= 1
    /\ window < Len(content)
    /\ content[window] # "\n"
    /\ content[window + 1] # "\n"
    /\ sampled.isValid
    /\ sampled.channelCount < analysis.channelCount

----------------------------------------------------------------------------
(* Claims about the two validators, checked under SpecBoth *)

\* the outcome of the HEAD request of a call: the second entry of what it observed
HeadOutcome(c) == Observed(c)[2]

HeadPhaseOver(c) == Len(log[c]) >= 2

\* C30: the two validators agree on the HEAD phase.  For the same url and the same outcome
\* of the HEAD request, validateM3uUrl returns isValid = true if and only if
\* validateM3uUrlDetailed goes on to the GET request.
C30_HeadPhasesAgree ==
    (/\ HeadPhaseOver("c1") /\ Done("c2")
     /\ url["c1"] = url["c2"]
     /\ HeadOutcome("c1") = HeadOutcome("c2"))
        => (verdict["c2"].isValid <=> Issued("c1", "GET"))

----------------------------------------------------------------------------
(* Claims about the device API *)

AUTHORISED == Some(BEARER \o CRON_SECRET)

CleanupCauses == {"auto_cleanup_dead_url", "auto_cleanup_inactive"}

Registered(d) == {r \in history.registered : r.id = d.id}

\* C23: a device record exists, with captcha_verified = true, only for a registration
\* whose captcha_token was present, was passed to verifyCaptcha and was accepted by it.
C23_CaptchaRequired ==
    \A d \in devices :
        /\ d.captcha_verified
        /\ \A r \in Registered(d) :
              r.captcha_token # None /\ r.verifyCaptcha /\ verifyCaptcha(r.captcha_token[1])

\* C25: whenever a device row is removed (by DELETE /devices/[mac], as a dead URL or as
\* inactive), device_logs holds, once the removing step is over, a record with that
\* device's id and the action of the removal.
C25_RemovalAudited ==
    [][\A r \in history'.removed \ history.removed :
          \E l \in device_logs' : l.device_id = r.id /\ l.action = r.cause]_vars

\* C26: a device is removed as a dead URL only when its URL has not answered
\* successfully for 7 days or more.
C26_DeadUrlAfterSevenDays ==
    \A r \in history.removed :
        r.cause = "auto_cleanup_dead_url" => r.silent = None \/ r.silent[1] >= SEVEN_DAYS

\* C27: the cleanup removes rows of devices or device_logs only when the request that
\* started it carried Authorization: Bearer <CRON_SECRET>.
C27_CleanupAuthorised ==
    /\ \A r \in history.removed : r.cause \in CleanupCauses => r.authorization = AUTHORISED
    /\ \A p \in Procs :
          (/\ handlers[p].op = "cleanup" /\ handlers[p].pc = "done"
           /\ handlers[p].status = STATUS_OK /\ Has(handlers[p], "oldLogs")
           /\ handlers[p].oldLogs > 0)
          => handlers[p].authorization = AUTHORISED

\* C28: devices holds at most one row per normalised MAC address, and a registration
\* that reaches the database is answered 201 when it creates the row and 409 'MAC
\* address already registered' otherwise.
C28_OneCreatedOthersConflict ==
    /\ \A d, e \in devices : d.mac_address = e.mac_address => d = e
    /\ \A p \in Procs :
          (/\ handlers[p].op = "register" /\ handlers[p].pc = "done"
           /\ Has(handlers[p], "mac_address"))
          => \/ handlers[p].status = STATUS_CREATED /\ Has(handlers[p], "id")
             \/ handlers[p].status = STATUS_CONFLICT /\ handlers[p].error = MSG_MAC_REGISTERED

Canonical(mac) == macAddressSchema(mac)[1]

\* the handler of p holds an accepted spelling
Spelled(p) == Has(handlers[p], "mac") /\ isValidMacAddress(handlers[p].mac)

====
